---- MODULE Spec2Model ----
(***************************************************************************)
(* Model of the container/volume/port lifecycle manager of ServersDockerBot *)
(* (src/docker_runner/docker_runner.py, src/docker_runner/upnp_wrapper.py). *)
(*                                                                         *)
(* The container engine is the only store: volumes and containers carry     *)
(* labels, and every operation of DockerRunner re-queries the engine.       *)
(* The engine calls of the docker SDK behave as the SDK does: a get of an   *)
(* absent volume, image or container raises docker.errors.NotFound (or its  *)
(* subclass ImageNotFound) and never returns None; containers.list without   *)
(* all=True returns the running containers only.                            *)
(*                                                                         *)
(* Optional values are sequences of length at most one: <<>> is None and    *)
(* <<x>> is x.  A result is a record [err, val]: err = "ok" for a normal     *)
(* return, and otherwise the name of the exception that leaves the call.     *)
(***************************************************************************)
EXTENDS Integers, Sequences, FiniteSets, TLC

\* ------------------------------------------------------------------ bounds

\* Volume ids the engine hands out, in order; an id is never handed out twice.
MaxVolumes == 1
\* Containers the engine holds at one time.
MaxContainers == 2

\* ------------------------------------------------------- inputs of the model

Users == {"u1", "u2"}

\* The engine's image registry: each template with its tags in the order the
\* engine reports them (Image.tags), its ExposedPorts and its WorkingDir.
Registry ==
    { [tags |-> <<"games:valheim", "games:latest">>,
       exposed |-> {[number |-> 2456, protocol |-> "udp"]}, working_dir |-> <<"/data">>] }

\* Image ids callers ask for: every tag of the registry and one absent id.
ImageIds == {"games:valheim", "games:latest", "games:absent"}

VolIds == 1..MaxVolumes
CtrIds == 1..MaxContainers

\* The image every sidecar runs.
FILE_BROWSER_IMAGE == "filebrowser/filebrowser"

GAME == "GAME"
FILE_BROWSER == "FILE-BROWSER"

NoVolume == [exists |-> FALSE]

\* ------------------------------------------------------------------- state

\* The engine (self.docker) is a record:
\*   volumes     volume id -> NoVolume or [exists, user_id, image_id]
\*   nextVol     the next volume id the engine hands out
\*   containers  the set of container records [id, image, user_id, image_id,
\*               volume_id, type, mounts, requested, ports, status]: the image
\*               the container runs, the four labels, the volumes mounted, the
\*               port bindings asked for, the host ports bound, and "running" or
\*               "created" (a container that exits is removed: auto_remove); the
\*               command line is not in the record
\* Every operation below takes the engine it reads as its first parameter.
VARIABLES
    docker,      \* the engine
    lifecycle,   \* history: volume id -> the state the successful calls put it in
    browser_of,  \* history: <<owner, volume id>> -> the sidecar id that the last
                 \*   start_file_browser returned, no stop or delete since
    res,         \* the last call: [op, args, err, val, changed, removed]
    upnp,        \* the port publication in progress (section "port publication")
    cmd,         \* the read loop of run_command in progress (section "command channel")
    starts,      \* the start calls in progress (section "overlapping starts")
    db           \* the database of the API: users, tokens, server_permissions

vars == <<docker, lifecycle, browser_of, res, upnp, cmd, starts, db>>

Engine(vols, nv, ctrs) == [volumes |-> vols, nextVol |-> nv, containers |-> ctrs]

Ok(v) == [err |-> "ok", val |-> v]
Raise(e) == [err |-> e, val |-> <<>>]

\* What a call does: how it ends (err, val) and the engine it leaves.
Effect(r, d) == [err |-> r.err, val |-> r.val, docker |-> d]

\* ------------------------------------------------------------ label filters

\* create_labels_filter: 'key=value', or 'key' alone when the value is None.
\* A filter is a function from label keys to an optional value.
create_labels_filter(kwargs) ==
    [key \in DOMAIN kwargs |->
        IF kwargs[key] # <<>> THEN [key |-> key, value |-> kwargs[key]]
                              ELSE [key |-> key, value |-> <<>>]]

\* The engine's label filter: every entry matches, 'key' alone by presence.
LabelsMatch(labels, filter) ==
    \A key \in DOMAIN filter :
        /\ key \in DOMAIN labels
        /\ filter[key].value # <<>> => <<labels[key]>> = filter[key].value

ContainerLabels(c) ==
    [user_id |-> c.user_id, image_id |-> c.image_id,
     volume_id |-> c.volume_id, type |-> c.type]

\* docker.containers.list(all=True, filters={'label': ...}): the containers in
\* every state.
docker_containers_list_all(d, filter) ==
    {c \in d.containers : LabelsMatch(ContainerLabels(c), filter)}

\* docker.containers.list(filters={'label': ...}): the running containers.
docker_containers_list(d, filter) ==
    {c \in docker_containers_list_all(d, filter) : c.status = "running"}

VolumeLabels(volume) == [user_id |-> volume.user_id, image_id |-> volume.image_id]

\* docker.volumes.list(filters={'label': ...}).
docker_volumes_list(d, filter) ==
    {v \in DOMAIN d.volumes : d.volumes[v].exists /\ LabelsMatch(VolumeLabels(d.volumes[v]), filter)}

\* docker.volumes.get finds the volume (it raises NotFound when it does not).
docker_volumes_has(d, server_id) ==
    server_id \in DOMAIN d.volumes /\ d.volumes[server_id].exists

\* --------------------------------------------------------------- image catalog

\* docker.images.get: the template one of whose tags is image_id.
docker_images_get(image_id) ==
    {image \in Registry : \E i \in 1..Len(image.tags) : image.tags[i] = image_id}

\* _extract_image_info_from_image: one ImageInfo per tag, in tag order.
_extract_image_info_from_image(image) ==
    [i \in 1..Len(image.tags) |-> [id_ |-> image.tags[i], ports |-> image.exposed]]

\* get_image_info: the first ImageInfo of the template that image_id names.
get_image_info(image_id) ==
    IF docker_images_get(image_id) = {}
    THEN Raise("docker.errors.ImageNotFound")
    ELSE LET image == CHOOSE image \in docker_images_get(image_id) : TRUE
         IN  Ok(_extract_image_info_from_image(image)[1])

\* ------------------------------------------------------------------ lookups

\* _extract_ports_from_container: the host ports the engine bound.
_extract_ports_from_container(container) == container.ports

\* _get_server_container with the type left out of the label filter.
_get_server_container_any_type(d, server_info, server_type, user_id) ==
    LET container_list == docker_containers_list(d, create_labels_filter(
            [volume_id |-> <<server_info.id_>>,
             image_id |-> <<server_info.image.id_>>,
             user_id |-> user_id]))
    IN  IF Cardinality(container_list) > 1 THEN Raise("ValueError")
        ELSE IF Cardinality(container_list) = 0 THEN Ok(<<>>)
        ELSE Ok(<<CHOOSE c \in container_list : TRUE>>)

\* _get_server_container that returns one of several matches.
_get_server_container_any_match(d, server_info, server_type, user_id) ==
    LET container_list == docker_containers_list(d, create_labels_filter(
            [volume_id |-> <<server_info.id_>>,
             image_id |-> <<server_info.image.id_>>,
             type |-> <<server_type>>,
             user_id |-> user_id]))
    IN  IF Cardinality(container_list) = 0 THEN Ok(<<>>)
        ELSE Ok(<<CHOOSE c \in container_list : TRUE>>)

\* _get_server_container: the one running container of the server of the given
\* type (and user when given); more than one is a ValueError.
_get_server_container(d, server_info, server_type, user_id) ==
    LET container_list == docker_containers_list(d, create_labels_filter(
            [volume_id |-> <<server_info.id_>>,
             image_id |-> <<server_info.image.id_>>,
             type |-> <<server_type>>,
             user_id |-> user_id]))
    IN  IF Cardinality(container_list) > 1 THEN Raise("ValueError")
        ELSE IF Cardinality(container_list) = 0 THEN Ok(<<>>)
        ELSE Ok(<<CHOOSE c \in container_list : TRUE>>)

ServerInfo(id, user, image, on, ports) ==
    [id_ |-> id, user_id |-> user, image |-> image, on |-> on, ports |-> ports]

\* get_server_info: the Server of a volume, on when its game container runs.
get_server_info(d, server_id, user_id) ==
    IF ~docker_volumes_has(d, server_id)
    THEN Raise("docker.errors.NotFound")
    ELSE
    LET volume_labels == VolumeLabels(d.volumes[server_id])
        image == get_image_info(volume_labels.image_id)
    IN  IF image.err # "ok" THEN image
        ELSE
        LET server_info == ServerInfo(server_id, volume_labels.user_id, image.val, FALSE, <<>>)
            container == _get_server_container(d, server_info, GAME, user_id)
        IN  IF container.err # "ok" THEN container
            ELSE IF container.val = <<>> THEN Ok(server_info)
            ELSE Ok(ServerInfo(server_id, volume_labels.user_id, image.val, TRUE,
                               <<_extract_ports_from_container(container.val[1])>>))

\* list_servers: get_server_info of every volume the label filter matches; the
\* first one that raises ends the call.
list_servers(d, user_id, image_id) ==
    LET listed == docker_volumes_list(d, create_labels_filter(
            [user_id |-> user_id, image_id |-> image_id]))
        infos == [v \in listed |-> get_server_info(d, v, <<>>)]
    IN  IF \E v \in listed : infos[v].err # "ok"
        THEN infos[CHOOSE v \in listed : infos[v].err # "ok"]
        ELSE Ok({infos[v].val : v \in listed})

\* ----------------------------------------------------------------- operations

MAX_SERVERS == 5

\* create_game_server that also creates the game container of the new server.
create_game_server_with_container(d, user_id, image_id) ==
    LET image == get_image_info(image_id)
    IN  IF image.err # "ok" THEN Effect(image, d)
        ELSE
        LET volume == [exists |-> TRUE, user_id |-> user_id, image_id |-> image.val.id_]
            container == [id |-> <<d.nextVol, user_id, GAME>>,
                          image |-> image.val.id_,
                          user_id |-> user_id,
                          image_id |-> image.val.id_,
                          volume_id |-> d.nextVol,
                          type |-> GAME,
                          mounts |-> {d.nextVol},
                          requested |-> <<>>,
                          ports |-> {},
                          status |-> "created"]
        IN  Effect(Ok(ServerInfo(d.nextVol, user_id, image.val, FALSE, <<>>)),
                   Engine([v \in DOMAIN d.volumes |-> IF v = d.nextVol THEN volume ELSE d.volumes[v]],
                          d.nextVol + 1, d.containers \cup {container}))

\* create_game_server: a new labelled volume, unless the image is absent or
\* the owner holds more than MAX_SERVERS volumes of the image.
create_game_server(d, user_id, image_id) ==
    LET image == get_image_info(image_id)
    IN  IF image.err # "ok" THEN Effect(image, d)
        ELSE
        LET existing_servers == list_servers(d, <<user_id>>, <<image.val.id_>>)
        IN  IF existing_servers.err # "ok" THEN Effect(existing_servers, d)
            ELSE IF Cardinality(existing_servers.val) > MAX_SERVERS
            THEN Effect(Raise("MaxServersReached"), d)
            ELSE
            LET volume == [exists |-> TRUE, user_id |-> user_id, image_id |-> image.val.id_]
                volume_labels == VolumeLabels(volume)
            IN  Effect(Ok(ServerInfo(d.nextVol, volume_labels.user_id, image.val, FALSE, <<>>)),
                       Engine([v \in DOMAIN d.volumes |-> IF v = d.nextVol THEN volume ELSE d.volumes[v]],
                              d.nextVol + 1, d.containers))

\* _get_server_image_working_dir: the WorkingDir of the image's Config.
_get_server_image_working_dir(image_id) ==
    (CHOOSE image \in docker_images_get(image_id) : TRUE).working_dir

\* Port.id_: f'{number}/{protocol}', one string per (number, protocol).
Port_id_(port) == <<port.number, port.protocol>>

\* requested_ports with the caller's entries laid over the image's ports.
requested_ports_merged(server_info, ports) ==
    LET chosen == IF ports = <<>> THEN [port \in server_info.image.ports |-> <<>>]
                  ELSE [port \in server_info.image.ports \cup DOMAIN ports[1] |->
                           IF port \in DOMAIN ports[1] THEN ports[1][port] ELSE <<>>]
    IN  [k \in {Port_id_(port) : port \in DOMAIN chosen} |->
            LET host_port == CHOOSE port \in DOMAIN chosen : Port_id_(port) = k
            IN  IF chosen[host_port] # <<>> THEN <<Port_id_(chosen[host_port][1])>>
                ELSE <<>>]

\* The ports argument of docker.containers.create, from container port id to
\* host binding: the image's ports with no binding (None) when the caller gave
\* no ports, and otherwise the caller's entries, each with the id_ of its host
\* port or None.
requested_ports(server_info, ports) ==
    LET chosen == IF ports = <<>> THEN [port \in server_info.image.ports |-> <<>>]
                  ELSE ports[1]
    IN  [k \in {Port_id_(port) : port \in DOMAIN chosen} |->
            LET host_port == CHOOSE port \in DOMAIN chosen : Port_id_(port) = k
            IN  IF chosen[host_port] # <<>> THEN <<Port_id_(chosen[host_port][1])>>
                ELSE <<>>]

\* The host ports the engine binds for a container: one per requested port, an
\* engine-chosen one (host) where the request names none.
BoundPorts(requested, host) ==
    {[number |-> IF requested[k] = <<>> THEN host ELSE requested[k][1][1],
      protocol |-> k[2]] : k \in DOMAIN requested}

\* What the engine does with containers.create and container.start (the
\* argument engine of the operators below): "ok", both succeed;
\* "create_raises", nothing is created; "start_raises", the created container
\* stays, not running.

\* The container the engine holds after create (and start, when it succeeds).
NewContainer(c, engine) ==
    [c EXCEPT !.status = IF engine = "ok" THEN "running" ELSE "created",
              !.ports = IF engine = "ok" THEN @ ELSE {}]

\* start_game_server after the check: the container is created again from a
\* fresh read of the server, and refused when one runs by then.
start_game_server_create_rechecked(d, server_info, ports, container_id, host, engine) ==
    IF Cardinality(docker_containers_list(d, create_labels_filter(
           [volume_id |-> <<server_info.id_>>, type |-> <<GAME>>]))) > 0
    THEN Effect(Raise("ServerAlreadyRunning"), d)
    ELSE
    LET requested == requested_ports(server_info, ports)
        container == NewContainer(
                     [id |-> container_id,
                      image |-> server_info.image.id_,
                      user_id |-> server_info.user_id,
                      image_id |-> server_info.image.id_,
                      volume_id |-> server_info.id_,
                      type |-> GAME,
                      mounts |-> {server_info.id_},
                      requested |-> requested,
                      ports |-> BoundPorts(requested, host),
                      status |-> "created"], engine)
    IN  Effect(Ok(ServerInfo(server_info.id_, server_info.user_id, server_info.image, TRUE,
                             <<_extract_ports_from_container(container)>>)),
               Engine(d.volumes, d.nextVol, d.containers \cup {container}))

\* start_game_server after the check of server_info.on: the container is
\* created from the server_info the call read, started and read again.
start_game_server_create(d, server_info, ports, container_id, host, engine) ==
    IF engine = "create_raises" THEN Effect(Raise("docker.errors.APIError"), d)
    ELSE
    LET working_dir == _get_server_image_working_dir(server_info.image.id_)
        mount == IF working_dir # <<>> THEN {server_info.id_} ELSE {}
        requested == requested_ports(server_info, ports)
        container == NewContainer(
                     [id |-> container_id,
                      image |-> server_info.image.id_,
                      user_id |-> server_info.user_id,
                      image_id |-> server_info.image.id_,
                      volume_id |-> server_info.id_,
                      type |-> GAME,
                      mounts |-> mount,
                      requested |-> requested,
                      ports |-> BoundPorts(requested, host),
                      status |-> "created"], engine)
        created == Engine(d.volumes, d.nextVol, d.containers \cup {container})
    IN  IF engine = "start_raises" THEN Effect(Raise("docker.errors.APIError"), created)
        ELSE Effect(Ok(ServerInfo(server_info.id_, server_info.user_id, server_info.image, TRUE,
                                  <<_extract_ports_from_container(container)>>)),
                    created)

\* start_game_server without the check of server_info.on.
start_game_server_unchecked(d, server_id, ports, container_id, host, engine) ==
    LET server_info == get_server_info(d, server_id, <<>>)
    IN  IF server_info.err # "ok" THEN Effect(server_info, d)
        ELSE start_game_server_create(d, server_info.val, ports, container_id, host, engine)

\* start_game_server: a new running container labelled with the server's
\* owner, image and volume, unless one is found running already.  The engine
\* chooses the container's id and the host ports it binds.
start_game_server(d, server_id, ports, container_id, host, engine) ==
    LET server_info == get_server_info(d, server_id, <<>>)
    IN  IF server_info.err # "ok" THEN Effect(server_info, d)
        ELSE IF server_info.val.on THEN Effect(Raise("ServerAlreadyRunning"), d)
        ELSE start_game_server_create(d, server_info.val, ports, container_id, host, engine)

\* stop_game_server returning the Server it read before the stop.
stop_game_server_stale(d, server_id) ==
    LET server_info == get_server_info(d, server_id, <<>>)
    IN  IF server_info.err # "ok" THEN Effect(server_info, d)
        ELSE IF ~server_info.val.on THEN Effect(Raise("ServerNotRunning"), d)
        ELSE
        LET container == _get_server_container(d, server_info.val, GAME, <<>>)
        IN  IF container.err # "ok" THEN Effect(container, d)
            ELSE IF container.val = <<>> THEN Effect(Raise("ServerNotRunning"), d)
            ELSE Effect(server_info,
                        Engine(d.volumes, d.nextVol, d.containers \ {container.val[1]}))

\* stop_game_server stopping every running container labelled with the volume.
stop_game_server_with_sidecars(d, server_id) ==
    LET server_info == get_server_info(d, server_id, <<>>)
    IN  IF server_info.err # "ok" THEN Effect(server_info, d)
        ELSE IF ~server_info.val.on THEN Effect(Raise("ServerNotRunning"), d)
        ELSE
        LET stopped == Engine(d.volumes, d.nextVol,
                              d.containers \ docker_containers_list(d,
                                  create_labels_filter([volume_id |-> <<server_id>>])))
        IN  Effect(get_server_info(stopped, server_id, <<>>), stopped)

\* stop_game_server: stops the running game container, which the engine then
\* removes (auto_remove), and returns the Server as read after the stop.
stop_game_server(d, server_id) ==
    LET server_info == get_server_info(d, server_id, <<>>)
    IN  IF server_info.err # "ok" THEN Effect(server_info, d)
        ELSE IF ~server_info.val.on THEN Effect(Raise("ServerNotRunning"), d)
        ELSE
        LET container == _get_server_container(d, server_info.val, GAME, <<>>)
        IN  IF container.err # "ok" THEN Effect(container, d)
            ELSE IF container.val = <<>> THEN Effect(Raise("ServerNotRunning"), d)
            ELSE
            LET stopped == Engine(d.volumes, d.nextVol, d.containers \ {container.val[1]})
            IN  Effect(get_server_info(stopped, server_id, <<>>), stopped)

\* delete_game_server without the try/except around docker.volumes.get.
delete_game_server_unwrapped(d, server_id) ==
    IF ~docker_volumes_has(d, server_id)
    THEN Effect(Raise("docker.errors.NotFound"), d)
    ELSE Effect(Ok(<<>>),
                Engine([v \in DOMAIN d.volumes |-> IF v = server_id THEN NoVolume ELSE d.volumes[v]],
                       d.nextVol,
                       d.containers \ docker_containers_list_all(d,
                           create_labels_filter([volume_id |-> <<server_id>>]))))

\* delete_game_server with containers.list without all=True.
delete_game_server_running_only(d, server_id) ==
    IF ~docker_volumes_has(d, server_id)
    THEN Effect(Raise("ServerNotFound"), d)
    ELSE Effect(Ok(<<>>),
                Engine([v \in DOMAIN d.volumes |-> IF v = server_id THEN NoVolume ELSE d.volumes[v]],
                       d.nextVol,
                       d.containers \ docker_containers_list(d,
                           create_labels_filter([volume_id |-> <<server_id>>]))))

\* delete_game_server: force-removes every container labelled with the volume
\* and then the volume.
delete_game_server(d, server_id) ==
    IF ~docker_volumes_has(d, server_id)
    THEN Effect(Raise("ServerNotFound"), d)
    ELSE Effect(Ok(<<>>),
                Engine([v \in DOMAIN d.volumes |-> IF v = server_id THEN NoVolume ELSE d.volumes[v]],
                       d.nextVol,
                       d.containers \ docker_containers_list_all(d,
                           create_labels_filter([volume_id |-> <<server_id>>]))))

\* get_server_logs: the log of the running game container.
get_server_logs(d, server_id) ==
    LET server_info == get_server_info(d, server_id, <<>>)
    IN  IF server_info.err # "ok" THEN Effect(server_info, d)
        ELSE
        LET container == _get_server_container(d, server_info.val, GAME, <<>>)
        IN  IF container.err # "ok" THEN Effect(container, d)
            ELSE IF container.val = <<>> THEN Effect(Raise("ServerNotRunning"), d)
            ELSE Effect(Ok([logs_of |-> container.val[1].id]), d)

\* The containers run_command chooses among: those the engine lists for the
\* label volume_id=server_id alone.
run_command_listed(d, server_id) ==
    docker_containers_list(d, create_labels_filter([volume_id |-> <<server_id>>]))

\* run_command: attaches to the first container of that list and writes the
\* command to it; an empty list is ServerNotRunning.  `first` is the container
\* the engine lists first.
run_command(d, server_id, first) ==
    IF run_command_listed(d, server_id) = {}
    THEN Effect(Raise("ServerNotRunning"), d)
    ELSE Effect(Ok([written_to |-> first.id, type |-> first.type]), d)

FileBrowserInfo(container, server_info, owner_id) ==
    [id_ |-> container.id, connected_to |-> server_info, owner_id |-> owner_id]

\* start_file_browser_create labelling the sidecar with the image it runs.
start_file_browser_create_mislabelled(d, server_info, owner_id, container_id, engine) ==
    LET container == NewContainer(
                     [id |-> container_id,
                      image |-> FILE_BROWSER_IMAGE,
                      user_id |-> owner_id,
                      image_id |-> FILE_BROWSER_IMAGE,
                      volume_id |-> server_info.id_,
                      type |-> FILE_BROWSER,
                      mounts |-> {server_info.id_},
                      requested |-> <<>>,
                      ports |-> {},
                      status |-> "created"], engine)
    IN  Effect(Ok(FileBrowserInfo(container, server_info, owner_id)),
               Engine(d.volumes, d.nextVol, d.containers \cup {container}))

\* start_file_browser after the lookup found no sidecar: a new one is created
\* from the server_info the call read, labelled and started.
start_file_browser_create(d, server_info, owner_id, container_id, engine) ==
    IF engine = "create_raises" THEN Effect(Raise("docker.errors.APIError"), d)
    ELSE
    LET container == NewContainer(
                     [id |-> container_id,
                      image |-> FILE_BROWSER_IMAGE,
                      user_id |-> owner_id,
                      image_id |-> server_info.image.id_,
                      volume_id |-> server_info.id_,
                      type |-> FILE_BROWSER,
                      mounts |-> {server_info.id_},
                      requested |-> <<>>,
                      ports |-> {},
                      status |-> "created"], engine)
        created == Engine(d.volumes, d.nextVol, d.containers \cup {container})
    IN  IF engine = "start_raises" THEN Effect(Raise("docker.errors.APIError"), created)
        ELSE Effect(Ok(FileBrowserInfo(container, server_info, owner_id)), created)

\* start_file_browser without the lookup of a running sidecar.
start_file_browser_always_new(d, server_id, owner_id, hashed_password, container_id, engine) ==
    LET server_info == get_server_info(d, server_id, <<>>)
    IN  IF server_info.err # "ok" THEN Effect(server_info, d)
        ELSE IF engine = "create_raises" THEN Effect(Raise("docker.errors.APIError"), d)
        ELSE
        LET container == NewContainer(
                         [id |-> container_id,
                          image |-> FILE_BROWSER_IMAGE,
                          user_id |-> owner_id,
                          image_id |-> server_info.val.image.id_,
                          volume_id |-> server_info.val.id_,
                          type |-> FILE_BROWSER,
                          mounts |-> {server_info.val.id_},
                          requested |-> <<>>,
                          ports |-> {},
                          status |-> "created"], engine)
            created == Engine(d.volumes, d.nextVol, d.containers \cup {container})
        IN  IF engine = "start_raises" THEN Effect(Raise("docker.errors.APIError"), created)
            ELSE Effect(Ok(FileBrowserInfo(container, server_info.val, owner_id)), created)

\* start_file_browser: the running sidecar of (owner, server) when there is
\* one, and otherwise a new one mounting the server's volume.  hashed_password
\* goes into the command line of a new sidecar only, which no record keeps.
start_file_browser(d, server_id, owner_id, hashed_password, container_id, engine) ==
    LET server_info == get_server_info(d, server_id, <<>>)
    IN  IF server_info.err # "ok" THEN Effect(server_info, d)
        ELSE
        LET found == _get_server_container(d, server_info.val, FILE_BROWSER, <<owner_id>>)
        IN  IF found.err # "ok" THEN Effect(found, d)
            ELSE IF found.val # <<>>
            THEN Effect(Ok(FileBrowserInfo(found.val[1], server_info.val, owner_id)), d)
            ELSE start_file_browser_create(d, server_info.val, owner_id, container_id, engine)

\* stop_file_browsing_by_user_and_server with the type left out of the filter.
stop_file_browsing_by_user_and_server_any_type(d, user_id, server_id) ==
    LET file_browsers == docker_containers_list(d, create_labels_filter(
            [user_id |-> <<user_id>>, volume_id |-> server_id]))
    IN  Effect(Ok(<<>>), Engine(d.volumes, d.nextVol, d.containers \ file_browsers))

\* stop_file_browsing_by_user_and_server: stops every running sidecar of the
\* user (on the server, when one is given); the engine removes each (auto_remove).
stop_file_browsing_by_user_and_server(d, user_id, server_id) ==
    LET file_browsers == docker_containers_list(d, create_labels_filter(
            [user_id |-> <<user_id>>, volume_id |-> server_id, type |-> <<FILE_BROWSER>>]))
    IN  Effect(Ok(<<>>), Engine(d.volumes, d.nextVol, d.containers \ file_browsers))

\* ----------------------------------------------------------- port publication

\* The gateways that discovery found (self._devices), in list order.
MaxDevices == 2
Devices == 1..MaxDevices

\* Host ports a started server can come back with.
HostPorts == {[number |-> 32768, protocol |-> "udp"], [number |-> 32769, protocol |-> "tcp"]}

\* upnp is a record:
\*   pc       "idle" (no publication), "ports" (in the loop over the ports),
\*            "devices" (in the loop over the gateways for one port), "done"
\*   ports    the ports of the ServerInfo handed in (<<>> is None)
\*   todo     the ports the outer loop has not taken yet
\*   port     the port of the inner loop
\*   device   the gateway the inner loop is at
\*   sent     the AddPortMapping requests issued: <<device, port>> -> how many
\*   failed   the requests that raised
\*   rules    the gateways' state: the <<device, port>> forwarding rules that are
\*            registered (a request that did not raise registered its rule)
UpnpIdle ==
    [pc |-> "idle", ports |-> <<>>, todo |-> {}, port |-> <<>>, device |-> 1,
     sent |-> [r \in Devices \X HostPorts |-> 0], failed |-> {}, rules |-> {}]

\* add_port_mapping_using_server_info is entered: None ends it at once.
add_port_mapping_using_server_info(u, ports) ==
    IF ports = <<>>
    THEN [u EXCEPT !.pc = "done", !.ports = ports]
    ELSE [u EXCEPT !.pc = "ports", !.ports = ports, !.todo = ports[1]]

\* for port in server_info.ports: the loop takes a port, or ends.
next_port(u, port) ==
    [u EXCEPT !.pc = "devices", !.todo = u.todo \ {port}, !.port = <<port>>, !.device = 1]

\* add_port_mapping without the try/except: a request that raises ends the
\* publication.
add_port_mapping_no_except(u, raises) ==
    LET request == <<u.device, u.port[1]>>
    IN  IF raises
        THEN [u EXCEPT !.sent[request] = @ + 1, !.failed = @ \cup {request}, !.pc = "done"]
        ELSE [u EXCEPT !.sent[request] = @ + 1, !.device = @ + 1,
                       !.rules = @ \cup {request}]

\* add_port_mapping without the try/except, as the caller sees it: a request
\* that raises leaves the call as an exception.
add_port_mapping_escalates(u, raises) ==
    LET request == <<u.device, u.port[1]>>
    IN  IF raises
        THEN [u EXCEPT !.sent[request] = @ + 1, !.failed = @ \cup {request}, !.pc = "raised"]
        ELSE [u EXCEPT !.sent[request] = @ + 1, !.device = @ + 1,
                       !.rules = @ \cup {request}]

\* add_port_mapping, one turn of `for device in self._devices`: the request to
\* the gateway is issued; when it raises, the except clause prints and the loop
\* goes on with the next gateway.
add_port_mapping(u, raises) ==
    LET request == <<u.device, u.port[1]>>
    IN  [u EXCEPT !.sent[request] = @ + 1,
                  !.failed = IF raises THEN @ \cup {request} ELSE @,
                  !.rules = IF raises THEN @ ELSE @ \cup {request},
                  !.device = @ + 1]

UpnpFrame == UNCHANGED <<docker, lifecycle, browser_of, res, cmd, starts, db>>

UpnpCall ==
    /\ upnp.pc = "idle"
    /\ \E ports \in {<<>>} \cup {<<S>> : S \in SUBSET HostPorts} :
           upnp' = add_port_mapping_using_server_info(upnp, ports)
    /\ UpnpFrame

UpnpNextPort ==
    /\ upnp.pc = "ports"
    /\ upnp.todo # {}
    /\ \E port \in upnp.todo : upnp' = next_port(upnp, port)
    /\ UpnpFrame

UpnpRequest ==
    /\ upnp.pc = "devices"
    /\ upnp.device \in Devices
    /\ \E raises \in BOOLEAN : upnp' = add_port_mapping(upnp, raises)
    /\ UpnpFrame

UpnpDevicesDone ==
    /\ upnp.pc = "devices"
    /\ upnp.device \notin Devices
    /\ upnp' = [upnp EXCEPT !.pc = "ports"]
    /\ UpnpFrame

UpnpReturn ==
    /\ upnp.pc = "ports"
    /\ upnp.todo = {}
    /\ upnp' = [upnp EXCEPT !.pc = "done"]
    /\ UpnpFrame

\* ------------------------------------------------------------ command channel

\* retries = 5 and lines = 20 of run_command.
RETRIES == 5
LINES == 20

\* cmd is a record:
\*   pc          "idle" (no call), "loop" (in the while loop), "returned",
\*               "raised"
\*   retries     the local variable retries
\*   lines       the local variable lines
\*   read        how many lines of the stream f.readline() has consumed
\*   all_output  the lines appended to all_output, each named by its place in
\*               the stream (1 is the first line the container wrote)
\*   polls       history: the select calls made since the command was written
\*   silent      history: the polls of the loop that found nothing since the
\*               last line was read (or since the loop began)
CmdIdle ==
    [pc |-> "idle", retries |-> RETRIES, lines |-> LINES, read |-> 0, all_output |-> <<>>,
     polls |-> 0, silent |-> 0]

\* run_command up to the while loop: the command is written, the result of the
\* first select is dropped, retries and lines are set.
run_command_attach(c) ==
    [c EXCEPT !.pc = "loop", !.retries = RETRIES, !.lines = LINES,
              !.read = 0, !.all_output = <<>>, !.polls = 1, !.silent = 0]

\* One turn of the loop in which a poll that finds nothing raises.
run_command_poll_raises(c, ready) ==
    IF ready
    THEN [c EXCEPT !.read = @ + 1, !.all_output = Append(@, c.read + 1), !.lines = @ - 1,
                   !.polls = @ + 1, !.silent = 0]
    ELSE [c EXCEPT !.pc = "raised", !.polls = @ + 1, !.silent = @ + 1]

\* One turn of `while lines > 0`: select says whether the stream is readable
\* (ready); a readable stream gives its next line, which is appended; an idle
\* one costs a retry while retries >= 0, and ends the loop after that.
run_command_poll(c, ready) ==
    IF ready
    THEN [c EXCEPT !.read = @ + 1, !.all_output = Append(@, c.read + 1), !.lines = @ - 1,
                   !.polls = @ + 1, !.silent = 0]
    ELSE IF c.retries >= 0
    THEN [c EXCEPT !.retries = @ - 1, !.polls = @ + 1, !.silent = @ + 1]
    ELSE [c EXCEPT !.pc = "returned", !.polls = @ + 1, !.silent = @ + 1]

CmdFrame == UNCHANGED <<docker, lifecycle, browser_of, res, upnp, starts, db>>

\* run_command finds a container of the server and attaches to it.
CmdAttach ==
    /\ cmd.pc = "idle"
    /\ \E server_id \in VolIds : run_command_listed(docker, server_id) # {}
    /\ cmd' = run_command_attach(cmd)
    /\ CmdFrame

CmdPoll ==
    /\ cmd.pc = "loop"
    /\ cmd.lines > 0
    /\ \E ready \in BOOLEAN : cmd' = run_command_poll(cmd, ready)
    /\ CmdFrame

\* lines reached 0: the loop ends and all_output is returned.
CmdReturn ==
    /\ cmd.pc = "loop"
    /\ cmd.lines = 0
    /\ cmd' = [cmd EXCEPT !.pc = "returned"]
    /\ CmdFrame

\* ------------------------------------------------------------------ database

\* models.Permission.
Permission == {"create", "start", "browse", "run-command", "delete", "stop", "admin"}

ADMIN == "admin"

\* A string is the sequence of its parts: permission values and the separators
\* ":" and ",", none of which occurs inside a permission value.

\* sep.join(items).
RECURSIVE join(_, _)
join(sep, items) ==
    IF items = <<>> THEN <<>>
    ELSE IF Len(items) = 1 THEN <<items[1]>>
    ELSE <<items[1], sep>> \o join(sep, Tail(items))

\* string.split(sep): the pieces between the separators; '' gives [''].
RECURSIVE split(_, _)
split(string, sep) ==
    IF \A i \in 1..Len(string) : string[i] # sep THEN <<string>>
    ELSE LET first == CHOOSE i \in 1..Len(string) :
                          string[i] = sep /\ \A j \in 1..(i - 1) : string[j] # sep
         IN  <<SubSeq(string, 1, first - 1)>>
                 \o split(SubSeq(string, first + 1, Len(string)), sep)

\* pydantic validates a field list[Permission]: every piece is the value of a
\* member of Permission, or the constructor raises ValidationError.
list_of_Permission(pieces) ==
    IF \A i \in 1..Len(pieces) : Len(pieces[i]) = 1 /\ pieces[i][1] \in Permission
    THEN Ok([i \in 1..Len(pieces) |-> pieces[i][1]])
    ELSE Raise("ValidationError")

\* The tables: DatabaseUser rows [username, email, password_hash, scope,
\* max_owned_servers], DatabaseSignupToken rows [token, email, scope] and
\* DatabasePermissions rows [server_id, user_id, scope].
Tables(users, tokens, server_permissions) ==
    [users |-> users, tokens |-> tokens, server_permissions |-> server_permissions]

\* The default of the column DatabaseUser.max_owned_servers and of the field
\* UserBase.max_owned_servers.
MAX_OWNED_SERVERS == 5

\* What a call on the database does: how it ends and the tables it leaves.
DbEffect(r, t) == [err |-> r.err, val |-> r.val, db |-> t]

\* UserBase.from_database_user.
UserBase_from_database_user(database_user) ==
    LET permissions == list_of_Permission(split(database_user.scope, ":"))
    IN  IF permissions.err # "ok" THEN permissions
        ELSE Ok([username |-> database_user.username,
                 email |-> database_user.email,
                 permissions |-> permissions.val,
                 max_owned_servers |-> database_user.max_owned_servers])

\* User.from_database_user.
User_from_database_user(database_user) ==
    LET permissions == list_of_Permission(split(database_user.scope, ":"))
    IN  IF permissions.err # "ok" THEN permissions
        ELSE Ok([username |-> database_user.username,
                 email |-> database_user.email,
                 permissions |-> permissions.val,
                 password_hash |-> database_user.password_hash,
                 max_owned_servers |-> database_user.max_owned_servers])

\* SignupToken.from_database_token.
from_database_token(database_token) ==
    LET permissions == list_of_Permission(split(database_token.scope, ":"))
    IN  IF permissions.err # "ok" THEN permissions
        ELSE Ok([email |-> database_token.email,
                 permissions |-> permissions.val,
                 token |-> database_token.token])

\* ServerPermissions.from_database_permissions.
from_database_permissions(database_permissions) ==
    LET permissions == list_of_Permission(split(database_permissions.scope, ":"))
    IN  IF permissions.err # "ok" THEN permissions
        ELSE Ok([server_id |-> database_permissions.server_id,
                 user_id |-> database_permissions.user_id,
                 permissions |-> permissions.val])

\* get_user: the user of that name, or None (<<>>).
get_user(t, user_id) ==
    LET found == {u \in t.users : u.username = user_id}
    IN  IF found = {} THEN Ok(<<>>)
        ELSE LET user == User_from_database_user(CHOOSE u \in found : TRUE)
             IN  IF user.err # "ok" THEN user ELSE Ok(<<user.val>>)

\* get_token: from_database_token is called on what first() returned, None
\* included, which has no attribute scope.
get_token(t, token) ==
    LET found == {k \in t.tokens : k.token = token}
    IN  IF found = {} THEN Raise("AttributeError")
        ELSE from_database_token(CHOOSE k \in found : TRUE)

\* change_permissions: the scope of the user's row is rewritten and committed,
\* then the row is read back.
change_permissions(t, username, permissions) ==
    LET users == {IF u.username = username
                  THEN [u EXCEPT !.scope = join(":", permissions)] ELSE u : u \in t.users}
        after == Tables(users, t.tokens, t.server_permissions)
        found == {u \in users : u.username = username}
    IN  IF found = {} THEN DbEffect(Raise("AttributeError"), after)
        ELSE DbEffect(UserBase_from_database_user(CHOOSE u \in found : TRUE), after)

\* create_user_from_token: the user of the token's email is replaced by a new
\* row; a username that another row holds fails the commit (primary key) and
\* the session is closed without it.
create_user_from_token(t, token, username, password_hash) ==
    LET token_item == get_token(t, token)
    IN  IF token_item.err # "ok" THEN DbEffect(token_item, t)
        ELSE
        LET db_user == [email |-> token_item.val.email,
                        scope |-> join(":", token_item.val.permissions),
                        username |-> username,
                        password_hash |-> password_hash,
                        max_owned_servers |-> MAX_OWNED_SERVERS]
            kept == {u \in t.users : u.email # db_user.email}
        IN  IF \E u \in kept : u.username = username
            THEN DbEffect(Raise("IntegrityError"), t)
            ELSE DbEffect(User_from_database_user(db_user),
                          Tables(kept \cup {db_user}, t.tokens, t.server_permissions))

\* create_token: the token of that email is replaced; a token string that
\* another row holds fails the commit (primary key).
create_token(t, token) ==
    LET db_signup == [email |-> token.email,
                      scope |-> join(":", token.permissions),
                      token |-> token.token]
        kept == {k \in t.tokens : k.email # token.email}
    IN  IF \E k \in kept : k.token = token.token
        THEN DbEffect(Raise("IntegrityError"), t)
        ELSE DbEffect(from_database_token(db_signup),
                      Tables(t.users, kept \cup {db_signup}, t.server_permissions))

\* set_server_permissions_for_user: the row of (server, user) is replaced and
\* committed, then converted back.
set_server_permissions_for_user(t, server_permissions) ==
    LET db_server_permissions == [server_id |-> server_permissions.server_id,
                                  user_id |-> server_permissions.user_id,
                                  scope |-> join(",", server_permissions.permissions)]
        kept == {r \in t.server_permissions :
                    ~(r.server_id = server_permissions.server_id
                      /\ r.user_id = server_permissions.user_id)}
    IN  DbEffect(from_database_permissions(db_server_permissions),
                 Tables(t.users, t.tokens, kept \cup {db_server_permissions}))

\* get_server_permissions_for_user: the grant of (server, user), or None (<<>>).
get_server_permissions_for_user(t, server_id, user_id) ==
    LET found == {r \in t.server_permissions : r.server_id = server_id /\ r.user_id = user_id}
    IN  IF found = {} THEN Ok(<<>>)
        ELSE LET server_permissions == from_database_permissions(CHOOSE r \in found : TRUE)
             IN  IF server_permissions.err # "ok" THEN server_permissions
                 ELSE Ok(<<server_permissions.val>>)

\* The elements of a list.
Range(list) == {list[i] : i \in 1..Len(list)}

\* users_with_permissions_or_owner, the dependency user_with_permissions(*permissions)
\* returns: the user when the check passes, HTTP 401 or 403 when it does not,
\* and whatever get_server_info or the grant's conversion raises.
users_with_permissions_or_owner(permissions, user, server_id, d, t) ==
    LET missing_permissions == permissions \ Range(user.permissions)
        permissions_allowed == missing_permissions = {} \/ ADMIN \in Range(user.permissions)
    IN  IF permissions_allowed THEN Ok(user)
        ELSE IF server_id = <<>> THEN Raise("401")
        ELSE
        LET server_info == get_server_info(d, server_id[1], <<>>)
        IN  IF server_info.err # "ok" THEN server_info
            ELSE IF server_info.val.user_id = user.username THEN Ok(user)
            ELSE
            LET server_permissions == get_server_permissions_for_user(t, server_id[1],
                                                                      user.username)
            IN  IF server_permissions.err # "ok" THEN server_permissions
                ELSE IF server_permissions.val = <<>> THEN Raise("403")
                ELSE IF \/ missing_permissions \ Range(server_permissions.val[1].permissions) = {}
                        \/ ADMIN \in Range(server_permissions.val[1].permissions)
                THEN Ok(user)
                ELSE Raise("401")

\* create_server, the handler of POST /servers, after the permission check.
create_server(d, user, image_id) ==
    LET owned == list_servers(d, <<user.username>>, <<>>)
    IN  IF ADMIN \in Range(user.permissions) THEN create_game_server(d, user.username, image_id)
        ELSE IF owned.err # "ok" THEN Effect(owned, d)
        ELSE IF user.max_owned_servers < Cardinality(owned.val)
        THEN Effect(Raise("401"), d)
        ELSE create_game_server(d, user.username, image_id)

\* ---------------------------------------------------------- overlapping starts

\* The callers whose start_game_server calls can overlap.
Callers == {"a", "b"}

\* starts[p] is the start_game_server or start_file_browser call of caller p:
\*   pc           "idle", "checked" (start_game_server read server_info and
\*                found it not on), "looked" (start_file_browser read
\*                server_info and found no sidecar) or "done"
\*   server_id    the argument
\*   owner_id     the argument of start_file_browser (<<>> in start_game_server)
\*   server_info  the local variable server_info (<<>> before it is read)
\*   err          how the call ended
StartsIdle ==
    [p \in Callers |-> [pc |-> "idle", server_id |-> 0, owner_id |-> <<>>,
                        server_info |-> <<>>, err |-> "ok"]]

\* No publication, no read loop and no overlapping start is in progress.
CallsIdle ==
    /\ upnp = UpnpIdle
    /\ cmd = CmdIdle
    /\ starts = StartsIdle

\* No call is in progress and the database is empty.
InitCalls ==
    /\ CallsIdle
    /\ db = Tables({}, {}, {})

\* -------------------------------------------------------------------- actions

\* The type and status of the containers that d holds and after does not.
Removed(d, after) ==
    {[type |-> c.type, status |-> c.status] : c \in d.containers \ after.containers}

\* The engine holds what the call left and res records the call.
Apply(op, args, e) ==
    /\ docker' = e.docker
    /\ res' = [op |-> op, args |-> args, err |-> e.err, val |-> e.val,
               changed |-> e.docker # docker, removed |-> Removed(docker, e.docker)]
    /\ UNCHANGED <<upnp, cmd, starts, db>>

\* The ids the engine can give a new container.
FreeIds == CtrIds \ {c.id : c \in docker.containers}

\* The engine chooses the id of the container a call adds (a call that adds
\* none is given the first id, which it does not use).
EngineGives(e, container_id) ==
    IF e.docker.containers \subseteq docker.containers
    THEN container_id = 1
    ELSE container_id \in FreeIds

Mark(server_id, e, state) ==
    lifecycle' = IF e.err = "ok" THEN [lifecycle EXCEPT ![server_id] = state]
                 ELSE lifecycle

GetImageInfo ==
    \E image_id \in ImageIds :
        /\ Apply("get_image_info", [image_id |-> image_id],
                 Effect(get_image_info(image_id), docker))
        /\ UNCHANGED <<lifecycle, browser_of>>

GetServerInfo ==
    \E server_id \in VolIds :
        /\ Apply("get_server_info", [server_id |-> server_id],
                 Effect(get_server_info(docker, server_id, <<>>), docker))
        /\ UNCHANGED <<lifecycle, browser_of>>

CreateGameServer ==
    \E user_id \in Users, image_id \in ImageIds :
        \E e \in {create_game_server(docker, user_id, image_id)} :
            /\ e.docker # docker => docker.nextVol \in VolIds
            /\ Apply("create_game_server", [user_id |-> user_id, image_id |-> image_id], e)
            /\ lifecycle' = IF e.err = "ok"
                            THEN [v \in VolIds |-> IF v = docker.nextVol THEN "Created"
                                                   ELSE lifecycle[v]]
                            ELSE lifecycle
            /\ UNCHANGED browser_of

StartGameServer ==
    \E server_id \in VolIds, container_id \in CtrIds :
        \E e \in {start_game_server(docker, server_id, <<>>, container_id, 32768, "ok")} :
            /\ EngineGives(e, container_id)
            /\ Apply("start_game_server", [server_id |-> server_id, ports |-> <<>>], e)
            /\ Mark(server_id, e, "Running")
            /\ UNCHANGED browser_of

StopGameServer ==
    \E server_id \in VolIds :
        \E e \in {stop_game_server(docker, server_id)} :
            /\ Apply("stop_game_server", [server_id |-> server_id], e)
            /\ Mark(server_id, e, "Created")
            /\ UNCHANGED browser_of

DeleteGameServer ==
    \E server_id \in VolIds :
        \E e \in {delete_game_server(docker, server_id)} :
            /\ Apply("delete_game_server", [server_id |-> server_id], e)
            /\ Mark(server_id, e, "Deleted")
            /\ browser_of' = IF e.err = "ok"
                             THEN [k \in Users \X VolIds |->
                                      IF k[2] = server_id THEN <<>> ELSE browser_of[k]]
                             ELSE browser_of

GetServerLogs ==
    \E server_id \in VolIds :
        /\ Apply("get_server_logs", [server_id |-> server_id],
                 get_server_logs(docker, server_id))
        /\ UNCHANGED <<lifecycle, browser_of>>

\* The engine lists the containers in an order of its own: any of them is first.
RunCommand ==
    \E server_id \in VolIds :
        \E first \in (IF run_command_listed(docker, server_id) = {} THEN {<<>>}
                      ELSE run_command_listed(docker, server_id)) :
            /\ Apply("run_command", [server_id |-> server_id],
                     run_command(docker, server_id, first))
            /\ UNCHANGED <<lifecycle, browser_of>>

StartFileBrowser ==
    \E server_id \in VolIds, owner_id \in Users,
       hashed_password \in {<<>>, <<"h1">>}, container_id \in CtrIds :
        \E e \in {start_file_browser(docker, server_id, owner_id,
                                     hashed_password, container_id, "ok")} :
            /\ EngineGives(e, container_id)
            /\ Apply("start_file_browser",
                     [server_id |-> server_id, owner_id |-> owner_id,
                      hashed_password |-> hashed_password], e)
            /\ browser_of' = IF e.err = "ok"
                             THEN [browser_of EXCEPT ![<<owner_id, server_id>>] = <<e.val.id_>>]
                             ELSE browser_of
            /\ UNCHANGED lifecycle

StopFileBrowsing ==
    \E user_id \in Users, server_id \in {<<>>} \cup {<<v>> : v \in VolIds} :
        /\ Apply("stop_file_browsing_by_user_and_server",
                 [user_id |-> user_id, server_id |-> server_id],
                 stop_file_browsing_by_user_and_server(docker, user_id, server_id))
        /\ browser_of' = [k \in Users \X VolIds |->
                             IF k[1] = user_id /\ (server_id = <<>> \/ server_id = <<k[2]>>)
                             THEN <<>> ELSE browser_of[k]]
        /\ UNCHANGED lifecycle

\* The game container of a server exits and the engine goes on listing it.
ContainerExitKept ==
    \E c \in docker.containers :
        /\ c.type = GAME
        /\ c.status = "running"
        /\ docker' = docker
        /\ lifecycle' = [lifecycle EXCEPT ![c.volume_id] = "Created"]
        /\ res' = [op |-> "container_exit", args |-> [server_id |-> c.volume_id],
                   err |-> "ok", val |-> <<>>, changed |-> FALSE, removed |-> {}]
        /\ UNCHANGED <<browser_of, upnp, cmd, starts, db>>

\* The game container of a server exits by itself and the engine removes it.
ContainerExit ==
    \E c \in docker.containers :
        /\ c.type = GAME
        /\ c.status = "running"
        /\ docker' = Engine(docker.volumes, docker.nextVol, docker.containers \ {c})
        /\ lifecycle' = [lifecycle EXCEPT ![c.volume_id] = "Created"]
        /\ res' = [op |-> "container_exit", args |-> [server_id |-> c.volume_id],
                   err |-> "ok", val |-> <<>>, changed |-> TRUE,
                   removed |-> {[type |-> c.type, status |-> c.status]}]
        /\ UNCHANGED <<browser_of, upnp, cmd, starts, db>>

InitEngine ==
    /\ docker = Engine([v \in VolIds |-> NoVolume], 1, {})
    /\ lifecycle = [v \in VolIds |-> "NotExist"]
    /\ browser_of = [k \in Users \X VolIds |-> <<>>]
    /\ res = [op |-> "init", args |-> <<>>, err |-> "ok", val |-> <<>>,
              changed |-> FALSE, removed |-> {}]

Init ==
    /\ InitEngine
    /\ InitCalls

Next ==
    \/ GetImageInfo
    \/ GetServerInfo
    \/ CreateGameServer
    \/ StartGameServer
    \/ StopGameServer
    \/ DeleteGameServer
    \/ GetServerLogs
    \/ RunCommand
    \/ StartFileBrowser
    \/ StopFileBrowsing
    \/ ContainerExit

\* The runner's operations, called one after the other, and container exits.
Spec == Init /\ [][Next]_vars

\* containers.create or container.start raises in start_game_server.
StartGameServerFails ==
    \E server_id \in VolIds, container_id \in CtrIds,
       engine \in {"create_raises", "start_raises"} :
        \E e \in {start_game_server(docker, server_id, <<>>, container_id, 32768, engine)} :
            /\ e.err = "docker.errors.APIError"
            /\ EngineGives(e, container_id)
            /\ Apply("start_game_server", [server_id |-> server_id, ports |-> <<>>], e)
            /\ UNCHANGED <<lifecycle, browser_of>>

\* The calls that add and remove containers and volumes, and the failing start.
NextFaults ==
    \/ CreateGameServer
    \/ StartGameServer
    \/ StartGameServerFails
    \/ StartFileBrowser
    \/ StopGameServer
    \/ DeleteGameServer

\* The runner's writing operations with an engine that can refuse to create or
\* to start a game container.
SpecFaults == Init /\ [][NextFaults]_vars

\* The ports argument of start_game_server: None, or a dict from ports to a
\* host port or None.
PortOverrides ==
    {<<>>} \cup
    {<<f>> : f \in UNION {[S -> {<<>>, <<[number |-> 32769, protocol |-> "udp"]>>}] :
                              S \in SUBSET {[number |-> 2456, protocol |-> "udp"],
                                             [number |-> 2457, protocol |-> "tcp"]}}}

\* start_game_server with every ports argument; the engine creates and starts
\* the container, or refuses the create request.
StartGameServerWithPorts ==
    \E server_id \in VolIds, ports \in PortOverrides, container_id \in CtrIds,
       engine \in {"ok", "create_raises"} :
        \E e \in {start_game_server(docker, server_id, ports, container_id, 32768, engine)} :
            /\ EngineGives(e, container_id)
            /\ Apply("start_game_server", [server_id |-> server_id, ports |-> ports], e)
            /\ Mark(server_id, e, "Running")
            /\ UNCHANGED browser_of

\* An engine that holds one server, created by "u1" and never started.
InitOneServer ==
    /\ docker = Engine([v \in VolIds |->
                            IF v = 1 THEN [exists |-> TRUE, user_id |-> "u1",
                                           image_id |-> "games:valheim"]
                            ELSE NoVolume], 2, {})
    /\ lifecycle = [v \in VolIds |-> IF v = 1 THEN "Created" ELSE "NotExist"]
    /\ browser_of = [k \in Users \X VolIds |-> <<>>]
    /\ res = [op |-> "init", args |-> <<>>, err |-> "ok", val |-> <<>>,
              changed |-> FALSE, removed |-> {}]
    /\ InitCalls

NextPorts ==
    \/ StartGameServerWithPorts
    \/ StopGameServer

\* Starts of one server with every ports argument, and stops.
SpecPorts == InitOneServer /\ [][NextPorts]_vars

\* Servers the engine holds when sidecars are started on several servers, and
\* the containers it holds at one time then.
MaxBrowsed == 4

\* An engine that holds MaxBrowsed servers, created by "u1" and never started.
InitBrowsers ==
    /\ docker = Engine([v \in 1..MaxBrowsed |->
                            [exists |-> TRUE, user_id |-> "u1", image_id |-> "games:valheim"]],
                       MaxBrowsed + 1, {})
    /\ lifecycle = [v \in VolIds |-> "NotExist"]
    /\ browser_of = [k \in Users \X VolIds |-> <<>>]
    /\ res = [op |-> "init", args |-> <<>>, err |-> "ok", val |-> <<>>,
              changed |-> FALSE, removed |-> {}]
    /\ InitCalls

\* The id the engine gives a new container here: one per server, owner and
\* type, free whenever a call creates a container (a running one is reused or
\* refuses the start).
BrowsedCtrId(server_id, owner_id, type) == <<server_id, owner_id, type>>

\* A call that adds a container needs room in the engine.
BrowsedRoom(e) ==
    e.docker.containers \subseteq docker.containers
        \/ Cardinality(docker.containers) < MaxBrowsed

BrowsersStartFileBrowser ==
    \E server_id \in DOMAIN docker.volumes, owner_id \in Users :
        \E e \in {start_file_browser(docker, server_id, owner_id, <<>>,
                       BrowsedCtrId(server_id, owner_id, FILE_BROWSER), "ok")} :
            /\ BrowsedRoom(e)
            /\ Apply("start_file_browser",
                     [server_id |-> server_id, owner_id |-> owner_id,
                      hashed_password |-> <<>>], e)
            /\ UNCHANGED <<lifecycle, browser_of>>

BrowsersStopFileBrowsing ==
    \E user_id \in Users,
       server_id \in {<<>>} \cup {<<v>> : v \in DOMAIN docker.volumes} :
        /\ Apply("stop_file_browsing_by_user_and_server",
                 [user_id |-> user_id, server_id |-> server_id],
                 stop_file_browsing_by_user_and_server(docker, user_id, server_id))
        /\ UNCHANGED <<lifecycle, browser_of>>

\* The first server is started.
BrowsersStartGameServer ==
    \E e \in {start_game_server(docker, 1, <<>>,
                   BrowsedCtrId(1, docker.volumes[1].user_id, GAME), 32768, "ok")} :
        /\ BrowsedRoom(e)
        /\ Apply("start_game_server", [server_id |-> 1, ports |-> <<>>], e)
        /\ UNCHANGED <<lifecycle, browser_of>>

NextBrowsers ==
    \/ BrowsersStartFileBrowser
    \/ BrowsersStopFileBrowsing
    \/ BrowsersStartGameServer

\* Sidecars of two owners on MaxBrowsed servers, one of which can run.
SpecBrowsers == InitBrowsers /\ [][NextBrowsers]_vars

\* An engine that holds one server with its game container running.
InitCommand ==
    /\ docker = start_game_server(
                    create_game_server(Engine([v \in VolIds |-> NoVolume], 1, {}),
                                       "u1", "games:valheim").docker,
                    1, <<>>, 1, 32768, "ok").docker
    /\ lifecycle = [v \in VolIds |-> IF v = 1 THEN "Running" ELSE "NotExist"]
    /\ browser_of = [k \in Users \X VolIds |-> <<>>]
    /\ res = [op |-> "init", args |-> <<>>, err |-> "ok", val |-> <<>>,
              changed |-> FALSE, removed |-> {}]
    /\ InitCalls

NextCommand ==
    \/ CmdAttach
    \/ CmdPoll
    \/ CmdReturn

\* One run_command on a running server, for every sequence of poll results.
SpecCommand == InitCommand /\ [][NextCommand]_vars

\* The host port the engine chooses for a new container: the least one that no
\* container holds.
FreeHostPort ==
    LET free == {32768, 32769, 32770} \
                    {port.number : port \in UNION {c.ports : c \in docker.containers}}
    IN  CHOOSE host \in free : \A other \in free : host <= other

\* Caller p enters start_game_server: get_server_info is read and on is tested.
StartCheck(p) ==
    /\ starts[p].pc = "idle"
    /\ \E server_id \in VolIds :
           LET server_info == get_server_info(docker, server_id, <<>>)
           IN  starts' = [starts EXCEPT ![p] =
                   IF server_info.err # "ok"
                   THEN [pc |-> "done", server_id |-> server_id, owner_id |-> <<>>,
                         server_info |-> <<>>, err |-> server_info.err]
                   ELSE IF server_info.val.on
                   THEN [pc |-> "done", server_id |-> server_id, owner_id |-> <<>>,
                         server_info |-> <<>>, err |-> "ServerAlreadyRunning"]
                   ELSE [pc |-> "checked", server_id |-> server_id, owner_id |-> <<>>,
                         server_info |-> <<server_info.val>>, err |-> "ok"]]
    /\ UNCHANGED <<docker, lifecycle, browser_of, res, upnp, cmd, db>>

\* Caller p goes on from the check: the container is created and started and
\* the call returns.
StartCreate(p) ==
    /\ starts[p].pc = "checked"
    /\ \E container_id \in FreeIds :
           LET e == start_game_server_create(docker, starts[p].server_info[1], <<>>,
                                             container_id, FreeHostPort, "ok")
           IN  /\ docker' = e.docker
               /\ starts' = [starts EXCEPT ![p].pc = "done", ![p].err = e.err]
               /\ res' = [op |-> "start_game_server",
                          args |-> [server_id |-> starts[p].server_id, ports |-> <<>>],
                          err |-> e.err, val |-> e.val,
                          changed |-> e.docker # docker, removed |-> Removed(docker, e.docker)]
               /\ Mark(starts[p].server_id, e, "Running")
    /\ UNCHANGED <<browser_of, upnp, cmd, db>>

\* The caller has its answer and can call again.
StartReturn(p) ==
    /\ starts[p].pc = "done"
    /\ starts' = [starts EXCEPT ![p] = StartsIdle[p]]
    /\ UNCHANGED <<docker, lifecycle, browser_of, res, upnp, cmd, db>>

NextStarts ==
    \/ \E p \in Callers : StartCheck(p)
    \/ \E p \in Callers : StartCreate(p)
    \/ \E p \in Callers : StartReturn(p)
    \/ StopGameServer
    \/ ContainerExit

\* start_game_server calls of two callers that interleave between the check
\* and the create, with stops and container exits.
SpecStarts == InitOneServer /\ [][NextStarts]_vars

\* Caller p enters start_file_browser: get_server_info is read and the running
\* sidecar of (owner, server) is looked up; one that is found is returned.
BrowseLookup(p) ==
    /\ starts[p].pc = "idle"
    /\ \E server_id \in VolIds, owner_id \in Users :
           LET server_info == get_server_info(docker, server_id, <<>>)
               found == _get_server_container(docker, server_info.val, FILE_BROWSER,
                                              <<owner_id>>)
               call == [pc |-> "done", server_id |-> server_id, owner_id |-> <<owner_id>>,
                        server_info |-> <<>>, err |-> "ok"]
           IN  starts' = [starts EXCEPT ![p] =
                   IF server_info.err # "ok" THEN [call EXCEPT !.err = server_info.err]
                   ELSE IF found.err # "ok" THEN [call EXCEPT !.err = found.err]
                   ELSE IF found.val # <<>> THEN call
                   ELSE [call EXCEPT !.pc = "looked", !.server_info = <<server_info.val>>]]
    /\ UNCHANGED <<docker, lifecycle, browser_of, res, upnp, cmd, db>>

\* Caller p goes on from the lookup: the sidecar is created and started and the
\* call returns.
BrowseCreate(p) ==
    /\ starts[p].pc = "looked"
    /\ \E container_id \in FreeIds :
           LET e == start_file_browser_create(docker, starts[p].server_info[1],
                                              starts[p].owner_id[1], container_id, "ok")
           IN  /\ docker' = e.docker
               /\ starts' = [starts EXCEPT ![p].pc = "done", ![p].err = e.err]
               /\ res' = [op |-> "start_file_browser",
                          args |-> [server_id |-> starts[p].server_id,
                                    owner_id |-> starts[p].owner_id[1],
                                    hashed_password |-> <<>>],
                          err |-> e.err, val |-> e.val,
                          changed |-> e.docker # docker, removed |-> Removed(docker, e.docker)]
    /\ UNCHANGED <<lifecycle, browser_of, upnp, cmd, db>>

NextBrowserStarts ==
    \/ \E p \in Callers : BrowseLookup(p)
    \/ \E p \in Callers : BrowseCreate(p)
    \/ \E p \in Callers : StartReturn(p)
    \/ StopFileBrowsing

\* start_file_browser calls of two callers that interleave between the lookup
\* and the create, with stops of sidecars.
SpecBrowserStarts == InitOneServer /\ [][NextBrowserStarts]_vars

NextDeleteOverlap ==
    \/ \E p \in Callers : StartCheck(p)
    \/ \E p \in Callers : StartCreate(p)
    \/ \E p \in Callers : BrowseLookup(p)
    \/ \E p \in Callers : BrowseCreate(p)
    \/ \E p \in Callers : StartReturn(p)
    \/ DeleteGameServer

\* delete_game_server calls that run between the first and the second half of
\* a start_game_server or start_file_browser call of another caller.
SpecDeleteOverlap == InitOneServer /\ [][NextDeleteOverlap]_vars

NextInconsistent ==
    \/ \E p \in Callers : StartCheck(p)
    \/ \E p \in Callers : StartCreate(p)
    \/ \E p \in Callers : StartReturn(p)
    \/ GetServerInfo
    \/ StartGameServer
    \/ StopGameServer
    \/ GetServerLogs
    \/ StartFileBrowser
    \/ DeleteGameServer

\* The runner's operations on a server that overlapping starts can leave with
\* two running game containers.
SpecInconsistent == InitOneServer /\ [][NextInconsistent]_vars

NextUpnp ==
    \/ UpnpCall
    \/ UpnpNextPort
    \/ UpnpRequest
    \/ UpnpDevicesDone
    \/ UpnpReturn

\* One port publication, for every port set and every pattern of failures.
SpecUpnp == Init /\ [][NextUpnp]_vars

\* The handler start_server: start_game_server, and then the publication of
\* the ports of the Server it returned; a start that raises ends the handler.
ApiStartServer ==
    /\ upnp.pc = "idle"
    /\ \E server_id \in VolIds, container_id \in CtrIds :
           \E e \in {start_game_server(docker, server_id, <<>>, container_id, 32768, "ok")} :
               /\ EngineGives(e, container_id)
               /\ docker' = e.docker
               /\ res' = [op |-> "start_game_server",
                          args |-> [server_id |-> server_id, ports |-> <<>>],
                          err |-> e.err, val |-> e.val,
                          changed |-> e.docker # docker, removed |-> Removed(docker, e.docker)]
               /\ Mark(server_id, e, "Running")
               /\ upnp' = IF e.err = "ok"
                          THEN add_port_mapping_using_server_info(upnp, e.val.ports)
                          ELSE upnp
    /\ UNCHANGED <<browser_of, cmd, starts, db>>

\* The publication returned: start_server returns server_info (res.val).  The
\* gateways keep their rules.
ApiStartServerReturn ==
    /\ upnp.pc = "done"
    /\ upnp' = [UpnpIdle EXCEPT !.rules = upnp.rules]
    /\ UpnpFrame

\* The handler stop_server with a _remove_port_mapping of the server's ports.
ApiStopServerUnpublishing ==
    /\ upnp.pc = "idle"
    /\ \E server_id \in VolIds :
           \E e \in {stop_game_server(docker, server_id)} :
               /\ docker' = e.docker
               /\ res' = [op |-> "stop_game_server", args |-> [server_id |-> server_id],
                          err |-> e.err, val |-> e.val,
                          changed |-> e.docker # docker, removed |-> Removed(docker, e.docker)]
               /\ Mark(server_id, e, "Created")
               /\ upnp' = IF e.err = "ok"
                          THEN [upnp EXCEPT !.rules =
                                   {r \in @ : \A c \in docker_containers_list(docker,
                                                create_labels_filter(
                                                    [volume_id |-> <<server_id>>])) :
                                                 r[2] \notin c.ports}]
                          ELSE upnp
    /\ UNCHANGED <<browser_of, cmd, starts, db>>

\* The handler stop_server: stop_game_server and nothing else.
ApiStopServer ==
    /\ upnp.pc = "idle"
    /\ StopGameServer

\* The handler delete_server: delete_game_server and nothing else.
ApiDeleteServer ==
    /\ upnp.pc = "idle"
    /\ DeleteGameServer

\* The handler create_server for a user with ADMIN (the handler's own limit is
\* for the other users): create_game_server and nothing else.
ApiCreateServer ==
    /\ upnp.pc = "idle"
    /\ CreateGameServer

NextPublish ==
    \/ ApiCreateServer
    \/ ApiStartServer
    \/ UpnpNextPort
    \/ UpnpRequest
    \/ UpnpDevicesDone
    \/ UpnpReturn
    \/ ApiStartServerReturn
    \/ ApiStopServer
    \/ ApiDeleteServer

\* Requests to create, start, stop and delete servers, one after the other,
\* each start followed by the publication of its ports to gateways that fail
\* for any of the requests.
SpecPublish == Init /\ [][NextPublish]_vars

\* Volume ids the engine hands out where servers are created next to servers
\* that have containers.
MaxCreated == 2

\* An engine with room for MaxCreated volumes and none yet.
InitVolumes ==
    /\ docker = Engine([v \in 1..MaxCreated |-> NoVolume], 1, {})
    /\ lifecycle = [v \in VolIds |-> "NotExist"]
    /\ browser_of = [k \in Users \X VolIds |-> <<>>]
    /\ res = [op |-> "init", args |-> <<>>, err |-> "ok", val |-> <<>>,
              changed |-> FALSE, removed |-> {}]
    /\ InitCalls

VolumesCreateGameServer ==
    \E user_id \in Users, image_id \in ImageIds :
        \E e \in {create_game_server(docker, user_id, image_id)} :
            /\ e.docker # docker => docker.nextVol \in DOMAIN docker.volumes
            /\ Apply("create_game_server", [user_id |-> user_id, image_id |-> image_id], e)
            /\ UNCHANGED <<lifecycle, browser_of>>

\* A call that adds a container needs room in the engine, which holds
\* MaxCreated containers here.
VolumesStartGameServer ==
    \E server_id \in DOMAIN docker.volumes :
        \E e \in {start_game_server(docker, server_id, <<>>,
                       BrowsedCtrId(server_id, "engine", GAME), 32768, "ok")} :
            /\ \/ e.docker.containers \subseteq docker.containers
               \/ Cardinality(docker.containers) < MaxCreated
            /\ Apply("start_game_server", [server_id |-> server_id, ports |-> <<>>], e)
            /\ UNCHANGED <<lifecycle, browser_of>>

VolumesStopGameServer ==
    \E server_id \in DOMAIN docker.volumes :
        /\ Apply("stop_game_server", [server_id |-> server_id],
                 stop_game_server(docker, server_id))
        /\ UNCHANGED <<lifecycle, browser_of>>

VolumesStartFileBrowser ==
    \E server_id \in DOMAIN docker.volumes, owner_id \in Users :
        \E e \in {start_file_browser(docker, server_id, owner_id, <<>>,
                       BrowsedCtrId(server_id, owner_id, FILE_BROWSER), "ok")} :
            /\ \/ e.docker.containers \subseteq docker.containers
               \/ Cardinality(docker.containers) < MaxCreated
            /\ Apply("start_file_browser",
                     [server_id |-> server_id, owner_id |-> owner_id,
                      hashed_password |-> <<>>], e)
            /\ UNCHANGED <<lifecycle, browser_of>>

VolumesDeleteGameServer ==
    \E server_id \in DOMAIN docker.volumes :
        /\ Apply("delete_game_server", [server_id |-> server_id],
                 delete_game_server(docker, server_id))
        /\ UNCHANGED <<lifecycle, browser_of>>

NextVolumes ==
    \/ VolumesCreateGameServer
    \/ VolumesStartGameServer
    \/ VolumesStopGameServer
    \/ VolumesDeleteGameServer
    \/ VolumesStartFileBrowser
    \/ BrowsersStopFileBrowsing

\* Servers created, started, stopped and deleted, and sidecars started and
\* stopped, on an engine that hands out MaxCreated volume ids.
SpecVolumes == InitVolumes /\ [][NextVolumes]_vars

\* ------------------------------------------------------------ database actions

\* The tables hold what the call left and res records the call.
DbApply(op, args, e) ==
    /\ db' = e.db
    /\ res' = [op |-> op, args |-> args, err |-> e.err, val |-> e.val,
               changed |-> e.db # db, removed |-> {}]
    /\ UNCHANGED <<docker, lifecycle, browser_of, upnp, cmd, starts>>

\* The permission lists requests carry: empty, one element, several.
PermissionLists ==
    {<<>>, <<"create">>, <<"start">>, <<"admin">>, <<"start", "stop">>}

\* Signup tokens issued over time.
MaxTokens == 2

\* invite_user_api: the token string is a new uuid4, here a number above every
\* one issued before.
InviteUser ==
    \E email \in {"e1", "e2"}, permissions \in PermissionLists :
        LET token_str == 1 + Cardinality({n \in 1..MaxTokens :
                                             \E k \in db.tokens : n <= k.token})
        IN  /\ token_str <= MaxTokens
            /\ DbApply("create_token", [token |-> token_str, email |-> email],
                       create_token(db, [token |-> token_str, email |-> email,
                                         permissions |-> permissions]))

\* sign_up.
SignUp ==
    \E token \in 1..MaxTokens, username \in Users, password_hash \in {"h1", "h2"} :
        DbApply("create_user_from_token",
                [token |-> token, username |-> username, password_hash |-> password_hash],
                create_user_from_token(db, token, username, password_hash))

NextSignup ==
    \/ InviteUser
    \/ SignUp

\* Invitations and signups on a database that starts empty.
SpecSignup == Init /\ [][NextSignup]_vars

\* The tables after "u1" and "u2" were invited with the permission create and
\* signed up.
DbTwoUsers ==
    Tables({[username |-> "u1", email |-> "e1", password_hash |-> "h1",
             scope |-> <<"create">>, max_owned_servers |-> MAX_OWNED_SERVERS],
            [username |-> "u2", email |-> "e2", password_hash |-> "h2",
             scope |-> <<"create">>, max_owned_servers |-> MAX_OWNED_SERVERS]},
           {[token |-> 1, email |-> "e1", scope |-> <<"create">>],
            [token |-> 2, email |-> "e2", scope |-> <<"create">>]},
           {})

\* change_user_data.
ChangePermissions ==
    \E username \in Users, permissions \in PermissionLists :
        DbApply("change_permissions", [username |-> username, permissions |-> permissions],
                change_permissions(db, username, permissions))

GetUser ==
    \E username \in Users :
        DbApply("get_user", [username |-> username],
                DbEffect(get_user(db, username), db))

\* api_set_server_user_permissions, after its permission check: the server
\* is looked up and the grant is written.
SetServerPermissions ==
    \E server_id \in VolIds, username \in Users, permissions \in PermissionLists :
        LET server_info == get_server_info(docker, server_id, <<>>)
        IN  DbApply("set_server_permissions_for_user",
                    [server_id |-> server_id, user_id |-> username,
                     permissions |-> permissions],
                    IF server_info.err # "ok" THEN DbEffect(server_info, db)
                    ELSE set_server_permissions_for_user(db,
                             [server_id |-> server_id, user_id |-> username,
                              permissions |-> permissions]))

\* api_get_server_user_permissions up to the lookup.
GetServerPermissions ==
    \E server_id \in VolIds, username \in Users :
        DbApply("get_server_permissions_for_user",
                [server_id |-> server_id, user_id |-> username],
                DbEffect(get_server_permissions_for_user(db, server_id, username), db))

\* An engine that holds one server, created by "u1" and never started, and the
\* two users.
InitStorage ==
    /\ docker = Engine([v \in VolIds |->
                            IF v = 1 THEN [exists |-> TRUE, user_id |-> "u1",
                                           image_id |-> "games:valheim"]
                            ELSE NoVolume], 2, {})
    /\ lifecycle = [v \in VolIds |-> IF v = 1 THEN "Created" ELSE "NotExist"]
    /\ browser_of = [k \in Users \X VolIds |-> <<>>]
    /\ res = [op |-> "init", args |-> <<>>, err |-> "ok", val |-> <<>>,
              changed |-> FALSE, removed |-> {}]
    /\ CallsIdle
    /\ db = DbTwoUsers

\* A request reaches user_with_permissions(*permissions) with the user that
\* user_data loaded and the server_id of the path, if the path has one; the
\* endpoint requires one permission, as every endpoint does, or two.
Authorize ==
    \E permissions \in {{"start"}, {"admin"}, {"start", "stop"}}, username \in Users,
       server_id \in {<<>>} \cup {<<v>> : v \in VolIds} :
        LET user == get_user(db, username)
        IN  /\ user.err = "ok"
            /\ user.val # <<>>
            /\ DbApply("user_with_permissions",
                       [permissions |-> permissions, username |-> username,
                        server_id |-> server_id],
                       DbEffect(users_with_permissions_or_owner(permissions, user.val[1],
                                                                server_id, docker, db), db))

NextAuthorization ==
    \/ ChangePermissions
    \/ GetUser
    \/ SetServerPermissions
    \/ GetServerPermissions
    \/ DeleteGameServer
    \/ Authorize

\* Permission lists are written to and read from the tables, and two users on
\* one server go through the permission check, with every global scope and
\* every grant the API can write, before and after the server is deleted.
SpecAuthorization == InitStorage /\ [][NextAuthorization]_vars

\* Volume ids the engine hands out while users create servers up to their quota.
MaxOwned == 7

\* An engine with no server and room for MaxOwned of them, and the two users
\* after change_user_data gave "u2" the permission start in place of create.
InitQuota ==
    /\ docker = Engine([v \in 1..MaxOwned |-> NoVolume], 1, {})
    /\ lifecycle = [v \in VolIds |-> "NotExist"]
    /\ browser_of = [k \in Users \X VolIds |-> <<>>]
    /\ res = [op |-> "init", args |-> <<>>, err |-> "ok", val |-> <<>>,
              changed |-> FALSE, removed |-> {}]
    /\ CallsIdle
    /\ db = change_permissions(DbTwoUsers, "u2", <<"start">>).db

\* POST /servers: user_data, the permission check for create, create_server.
CreateServerRequest ==
    \E username \in Users, image_id \in ImageIds :
        LET user == get_user(db, username)
            allowed == users_with_permissions_or_owner({"create"}, user.val[1], <<>>,
                                                       docker, db)
        IN  /\ user.err = "ok"
            /\ user.val # <<>>
            /\ \E e \in {IF allowed.err # "ok" THEN Effect(allowed, docker)
                         ELSE create_server(docker, user.val[1], image_id)} :
                   /\ e.docker # docker => docker.nextVol \in DOMAIN docker.volumes
                   /\ Apply("create_server",
                            [username |-> username, image_id |-> image_id], e)
            /\ UNCHANGED <<lifecycle, browser_of>>

\* DELETE /servers/{server_id}: user_data, the permission check for delete (the
\* owner passes), delete_game_server.
DeleteServerRequest ==
    \E username \in Users, server_id \in DOMAIN docker.volumes :
        LET user == get_user(db, username)
            allowed == users_with_permissions_or_owner({"delete"}, user.val[1],
                                                       <<server_id>>, docker, db)
        IN  /\ user.err = "ok"
            /\ user.val # <<>>
            /\ Apply("delete_server", [username |-> username, server_id |-> server_id],
                     IF allowed.err # "ok" THEN Effect(allowed, docker)
                     ELSE delete_game_server(docker, server_id))
            /\ UNCHANGED <<lifecycle, browser_of>>

NextQuota ==
    \/ CreateServerRequest
    \/ DeleteServerRequest

\* Create and delete requests of two users who are not admins.
SpecQuota == InitQuota /\ [][NextQuota]_vars

\* ------------------------------------------------------------------ UPNPWrapper

\* The methods of UPNPWrapper around a DockerRunner (self._container_runner),
\* each with the engine d that the runner reads.

\* UPNPWrapper.get_image_info calls self.get_image_info, that is itself, until
\* the interpreter's recursion limit ends the call.
UPNPWrapper_get_image_info(image_id) == Raise("RecursionError")

\* UPNPWrapper.get_server_info passes server_type=, a keyword that
\* DockerRunner.get_server_info(server_id, user_id) does not take.
UPNPWrapper_get_server_info(d, server_id) == Effect(Raise("TypeError"), d)

\* UPNPWrapper.list_servers passes type=, a keyword that
\* DockerRunner.list_servers(user_id, image_id) does not take.
UPNPWrapper_list_servers(d, user_id, image_id) == Effect(Raise("TypeError"), d)

\* UPNPWrapper.stop_game_server returns what the runner's stop_game_server does.
UPNPWrapper_stop_game_server(d, server_id) == stop_game_server(d, server_id)

\* UPNPWrapper.start_file_browser calls the runner's start_file_browser and,
\* in _open_ports_decorator, reads .ports of the FileBrowserInfo it returned,
\* which has no such field.
UPNPWrapper_start_file_browser(d, server_id, owner_id, hashed_password, container_id, engine) ==
    LET e == start_file_browser(d, server_id, owner_id, hashed_password, container_id, engine)
    IN  IF e.err # "ok" THEN e ELSE Effect(Raise("AttributeError"), e.docker)

\* UPNPWrapper.stop_file_browsing calls the runner's stop_file_browsing, which
\* DockerRunner does not have (its method is stop_file_browsing_by_user_and_server).
UPNPWrapper_stop_file_browsing(d, user_id, server_id) == Effect(Raise("AttributeError"), d)

WrapperGetImageInfo ==
    \E image_id \in ImageIds :
        /\ Apply("UPNPWrapper.get_image_info", [image_id |-> image_id],
                 Effect(UPNPWrapper_get_image_info(image_id), docker))
        /\ UNCHANGED <<lifecycle, browser_of>>

WrapperGetServerInfo ==
    \E server_id \in VolIds :
        /\ Apply("UPNPWrapper.get_server_info", [server_id |-> server_id],
                 UPNPWrapper_get_server_info(docker, server_id))
        /\ UNCHANGED <<lifecycle, browser_of>>

WrapperListServers ==
    \E user_id \in {<<>>} \cup {<<u>> : u \in Users} :
        /\ Apply("UPNPWrapper.list_servers", [user_id |-> user_id, image_id |-> <<>>],
                 UPNPWrapper_list_servers(docker, user_id, <<>>))
        /\ UNCHANGED <<lifecycle, browser_of>>

WrapperStopGameServer ==
    \E server_id \in VolIds :
        \E e \in {UPNPWrapper_stop_game_server(docker, server_id)} :
            /\ Apply("UPNPWrapper.stop_game_server", [server_id |-> server_id], e)
            /\ Mark(server_id, e, "Created")
            /\ UNCHANGED browser_of

\* The call raises after the runner created the sidecar: the caller is given
\* no sidecar id.
WrapperStartFileBrowser ==
    \E server_id \in VolIds, owner_id \in Users, container_id \in CtrIds :
        \E e \in {UPNPWrapper_start_file_browser(docker, server_id, owner_id, <<>>,
                                                  container_id, "ok")} :
            /\ EngineGives(e, container_id)
            /\ Apply("UPNPWrapper.start_file_browser",
                     [server_id |-> server_id, owner_id |-> owner_id,
                      hashed_password |-> <<>>, container_id |-> container_id], e)
            /\ UNCHANGED <<lifecycle, browser_of>>

WrapperStopFileBrowsing ==
    \E user_id \in Users, server_id \in {<<>>} \cup {<<v>> : v \in VolIds} :
        /\ Apply("UPNPWrapper.stop_file_browsing",
                 [user_id |-> user_id, server_id |-> server_id],
                 UPNPWrapper_stop_file_browsing(docker, user_id, server_id))
        /\ UNCHANGED <<lifecycle, browser_of>>

NextWrapper ==
    \/ CreateGameServer
    \/ StartGameServer
    \/ StartFileBrowser
    \/ WrapperGetImageInfo
    \/ WrapperGetServerInfo
    \/ WrapperListServers
    \/ WrapperStopGameServer
    \/ WrapperStartFileBrowser
    \/ WrapperStopFileBrowsing

\* Calls of the wrapper's methods on an engine that the runner's own create and
\* start calls fill.
SpecWrapper == Init /\ [][NextWrapper]_vars

\* ===================================================================== claims

\* The game containers of a server that run.
GameContainers(d, server_id) ==
    {c \in d.containers : c.volume_id = server_id /\ c.type = GAME /\ c.status = "running"}

\* The sidecars of a server that run.
Sidecars(d, server_id) ==
    {c \in d.containers :
        c.volume_id = server_id /\ c.type = FILE_BROWSER /\ c.status = "running"}

\* C1: a successful createServer(owner, image) returns a Server whose owner and
\* image are the arguments and whose running flag is false, and
\* listServers(owner, image) called right after it contains that Server.
C1_CreateReturnsWhatWasAsked ==
    (res.op = "create_game_server" /\ res.err = "ok") =>
        /\ res.val.user_id = res.args.user_id
        /\ res.val.image.id_ = res.args.image_id
        /\ res.val.on = FALSE
        /\ LET listed == list_servers(docker, <<res.args.user_id>>, <<res.args.image_id>>)
           IN  listed.err = "ok" /\ res.val \in listed.val

\* C2: when startServer succeeded on a server and no stopServer, deleteServer or
\* container exit happened since, a startServer on it raises ServerAlreadyRunning
\* and leaves the engine as it was (no second container, the running one
\* unchanged).
C2_SecondStartRaises ==
    [][\A server_id \in VolIds :
          (/\ lifecycle[server_id] = "Running"
           /\ res'.op = "start_game_server"
           /\ res'.args.server_id = server_id)
          => (res'.err = "ServerAlreadyRunning" /\ docker' = docker)]_vars

\* C2 happens: a start was refused on a running server.
C2_Witness ==
    /\ res.op = "start_game_server"
    /\ res.err = "ServerAlreadyRunning"
    /\ lifecycle[res.args.server_id] = "Running"
    /\ Cardinality(GameContainers(docker, res.args.server_id)) = 1

\* C3: on an existing server with no running game container, stopServer and
\* getServerLogs raise ServerNotRunning and leave the engine as it was.
C3_StopAndLogsNeedRunning ==
    [][\A server_id \in VolIds :
          (/\ docker_volumes_has(docker, server_id)
           /\ GameContainers(docker, server_id) = {}
           /\ res'.op \in {"stop_game_server", "get_server_logs"}
           /\ res'.args.server_id = server_id)
          => (res'.err = "ServerNotRunning" /\ docker' = docker)]_vars

\* C3 happens: a stop was refused on a server that has a sidecar and no game
\* container.
C3_Witness ==
    /\ res.op = "stop_game_server"
    /\ res.err = "ServerNotRunning"
    /\ docker_volumes_has(docker, res.args.server_id)
    /\ GameContainers(docker, res.args.server_id) = {}
    /\ Sidecars(docker, res.args.server_id) # {}

\* C4: in a state where an existing server has no running game container,
\* whatever sidecars it has, runCommand raises ServerNotRunning and writes the
\* command to no container.  (run_command leaves the engine as it is, so the
\* state after the call shows what the call saw.)
C4_RunCommandNeedsRunning ==
    (/\ res.op = "run_command"
     /\ docker_volumes_has(docker, res.args.server_id)
     /\ GameContainers(docker, res.args.server_id) = {})
    => (res.err = "ServerNotRunning" /\ res.val = <<>>)

\* C5: once deleteServer(id) succeeded (an id is never created again), a
\* deleteServer(id) raises ServerNotFound and leaves the engine as it was.
C5_SecondDeleteRaises ==
    [][\A server_id \in VolIds :
          (/\ lifecycle[server_id] = "Deleted"
           /\ res'.op = "delete_game_server"
           /\ res'.args.server_id = server_id)
          => (res'.err = "ServerNotFound" /\ docker' = docker)]_vars

\* C5 happens: a delete was refused on a deleted server.
C5_Witness ==
    /\ res.op = "delete_game_server"
    /\ res.err = "ServerNotFound"
    /\ lifecycle[res.args.server_id] = "Deleted"

\* C6: after deleteServer(id) succeeded, getServerInfo(id) raises ServerNotFound.
C6_InfoAfterDeleteIsServerNotFound ==
    (res.op = "get_server_info" /\ lifecycle[res.args.server_id] = "Deleted")
    => res.err = "ServerNotFound"

\* C7: when startFileBrowser(server, owner) returned a sidecar and no
\* stopFileBrowsing or deleteServer touched the pair since, startFileBrowser
\* (server, owner) returns the same sidecar id, whatever the password hash, and
\* the engine then holds one sidecar labelled (owner, server).
C7_FileBrowserReused ==
    [][\A owner_id \in Users, server_id \in VolIds :
          (/\ browser_of[<<owner_id, server_id>>] # <<>>
           /\ res'.op = "start_file_browser"
           /\ res'.args.server_id = server_id
           /\ res'.args.owner_id = owner_id)
          => (/\ res'.err = "ok"
              /\ <<res'.val.id_>> = browser_of[<<owner_id, server_id>>]
              /\ Cardinality({c \in Sidecars(docker', server_id) : c.user_id = owner_id}) = 1)]_vars

\* C7 happens: a startFileBrowser call with a password hash returned the
\* sidecar that was there (the call added nothing) while the other owner has a
\* sidecar on the same server.
C7_Witness ==
    /\ res.op = "start_file_browser"
    /\ res.err = "ok"
    /\ ~res.changed
    /\ res.args.hashed_password # <<>>
    /\ browser_of[<<res.args.owner_id, res.args.server_id>>] = <<res.val.id_>>
    /\ Cardinality(Sidecars(docker, res.args.server_id)) = 2

\* C8: when the publication of a port set has returned, one AddPortMapping
\* request was issued for every port of the set to every gateway, whichever
\* requests failed.
C8_EveryGatewayAsked ==
    (upnp.pc = "done" /\ upnp.ports # <<>>) =>
        \A port \in upnp.ports[1], device \in Devices : upnp.sent[<<device, port>>] = 1

\* C8 happens: a publication of two ports returned after the first gateway
\* failed for a port and the last gateway did not.
C8_Witness ==
    /\ upnp.pc = "done"
    /\ upnp.ports = <<HostPorts>>
    /\ \E port \in HostPorts :
           /\ <<1, port>> \in upnp.failed
           /\ <<MaxDevices, port>> \notin upnp.failed

\* C9: createServer and getImageInfo with an image id absent from the engine
\* fail with GameNotFound, and create no volume.
C9_AbsentImageIsGameNotFound ==
    (/\ res.op \in {"create_game_server", "get_image_info"}
     /\ docker_images_get(res.args.image_id) = {})
    => (res.err = "GameNotFound" /\ ~res.changed)

\* C10: createServer(owner, image) of a catalog image raises MaxServersReached
\* and creates no volume when more than MAX_SERVERS volumes are labelled
\* (owner, image), and otherwise creates one new volume, labelled (owner, image).
C10_QuotaOrOneVolume ==
    [][\A user_id \in Users, image_id \in ImageIds :
          (/\ res'.op = "create_game_server"
           /\ res'.args = [user_id |-> user_id, image_id |-> image_id]
           /\ docker_images_get(image_id) # {})
          => IF Cardinality({v \in VolIds :
                    /\ docker.volumes[v].exists
                    /\ docker.volumes[v].user_id = user_id
                    /\ docker.volumes[v].image_id = image_id}) > MAX_SERVERS
             THEN res'.err = "MaxServersReached" /\ docker' = docker
             ELSE \E v \in VolIds :
                    /\ ~docker.volumes[v].exists
                    /\ docker'.volumes = [docker.volumes EXCEPT ![v] =
                           [exists |-> TRUE, user_id |-> user_id, image_id |-> image_id]]
                    /\ docker'.containers = docker.containers]_vars

\* C11: every volume has at most one running game container.
C11_OneGameContainerPerVolume ==
    \A server_id \in DOMAIN docker.volumes :
        Cardinality(GameContainers(docker, server_id)) <= 1

\* C11 happens: a start succeeded on a server that has a sidecar, and the
\* server has one game container.
C11_Witness ==
    /\ res.op = "start_game_server"
    /\ res.err = "ok"
    /\ Cardinality(GameContainers(docker, res.args.server_id)) = 1
    /\ Sidecars(docker, res.args.server_id) # {}

\* C12: once deleteServer(id) succeeded, the engine holds no container in any
\* state labelled with the volume id, and no volume of that id.
C12_DeleteLeavesNothing ==
    \A server_id \in VolIds :
        lifecycle[server_id] = "Deleted" =>
            /\ ~docker_volumes_has(docker, server_id)
            /\ \A c \in docker.containers : c.volume_id # server_id

\* C12 happens: a delete succeeded that removed a running sidecar and a game
\* container that was created and never ran.
C12_Witness ==
    /\ res.op = "delete_game_server"
    /\ res.err = "ok"
    /\ lifecycle[res.args.server_id] = "Deleted"
    /\ [type |-> FILE_BROWSER, status |-> "running"] \in res.removed
    /\ [type |-> GAME, status |-> "created"] \in res.removed

\* C13: a stopServer that succeeds returns the Server with running=false and
\* the id, owner and image of its volume (which no call changes), and a
\* startServer on a server that is Created (never started, stopped or exited)
\* succeeds with running=true.
C13_StopThenStartAgain ==
    [][\A server_id \in VolIds :
          /\ (/\ res'.op = "stop_game_server"
              /\ res'.args.server_id = server_id
              /\ res'.err = "ok")
             => (/\ lifecycle[server_id] = "Running"
                 /\ docker'.volumes = docker.volumes
                 /\ res'.val.on = FALSE
                 /\ res'.val.id_ = server_id
                 /\ res'.val.user_id = docker.volumes[server_id].user_id
                 /\ res'.val.image = get_image_info(docker.volumes[server_id].image_id).val
                 /\ GameContainers(docker', server_id) = {})
          /\ (/\ lifecycle[server_id] = "Created"
              /\ res'.op = "start_game_server"
              /\ res'.args.server_id = server_id)
             => (/\ res'.err = "ok"
                 /\ res'.val.on = TRUE
                 /\ res'.val.id_ = server_id
                 /\ res'.val.user_id = docker.volumes[server_id].user_id
                 /\ Cardinality(GameContainers(docker', server_id)) = 1)]_vars

\* C13 happens: a stop succeeded on a started server of "u2" and returned it
\* with running=false.
C13_Witness ==
    /\ res.op = "stop_game_server"
    /\ res.err = "ok"
    /\ res.val.on = FALSE
    /\ res.val.user_id = "u2"
    /\ res.removed = {[type |-> GAME, status |-> "running"]}
    /\ lifecycle[res.args.server_id] = "Created"

\* C14: the container a successful startServer creates is asked the image's
\* declared ports, each with no host binding (the engine chooses), when the
\* caller gave no ports, and otherwise the caller's entries and no other: every
\* entry with the host port the caller named, or none.
C14_PortsAreDefaultsOrOverride ==
    [][\A server_id \in VolIds :
          (/\ res'.op = "start_game_server"
           /\ res'.args.server_id = server_id
           /\ res'.err = "ok")
          => \E c \in docker'.containers :
                /\ docker'.containers = docker.containers \cup {c}
                /\ c \notin docker.containers
                /\ LET declared == get_image_info(docker.volumes[server_id].image_id).val.ports
                       ports == res'.args.ports
                   IN  IF ports = <<>>
                       THEN /\ DOMAIN c.requested = {Port_id_(port) : port \in declared}
                            /\ \A k \in DOMAIN c.requested : c.requested[k] = <<>>
                       ELSE /\ DOMAIN c.requested = {Port_id_(port) : port \in DOMAIN ports[1]}
                            /\ \A port \in DOMAIN ports[1] :
                                  c.requested[Port_id_(port)] =
                                      IF ports[1][port] = <<>> THEN <<>>
                                      ELSE <<Port_id_(ports[1][port][1])>>]_vars

\* C14 happens: a start succeeded whose ports name a host port for a port the
\* image does not declare and leave out the port the image declares.
C14_Witness ==
    /\ res.op = "start_game_server"
    /\ res.err = "ok"
    /\ res.args.ports # <<>>
    /\ DOMAIN res.args.ports[1] = {[number |-> 2457, protocol |-> "tcp"]}
    /\ res.args.ports[1][[number |-> 2457, protocol |-> "tcp"]] # <<>>
    /\ \E c \in GameContainers(docker, res.args.server_id) :
           DOMAIN c.requested = {<<2457, "tcp">>}

\* C15: stopFileBrowsing(owner, server?) removes from the engine the running
\* sidecars labelled with the owner (and the server, when one is given) and
\* nothing else: every other container and every volume stays as it was.
C15_StopFileBrowsingFrame ==
    [][res'.op = "stop_file_browsing_by_user_and_server" =>
          /\ res'.err = "ok"
          /\ docker'.volumes = docker.volumes
          /\ docker'.containers = docker.containers \
                {c \in docker.containers :
                    /\ c.type = FILE_BROWSER
                    /\ c.status = "running"
                    /\ c.user_id = res'.args.user_id
                    /\ (res'.args.server_id = <<>>
                            \/ res'.args.server_id = <<c.volume_id>>)}]_vars

\* C15 happens: a stop for an owner and a server removed a sidecar, and the
\* engine still has a sidecar of the owner on another server, a sidecar of the
\* other owner on the same server and the server's game container, which
\* carries the owner's id.
C15_Witness ==
    /\ res.op = "stop_file_browsing_by_user_and_server"
    /\ res.args.server_id # <<>>
    /\ res.removed = {[type |-> FILE_BROWSER, status |-> "running"]}
    /\ \E c \in docker.containers :
           /\ c.type = FILE_BROWSER
           /\ c.user_id = res.args.user_id
           /\ <<c.volume_id>> # res.args.server_id
    /\ \E c \in docker.containers :
           /\ c.type = FILE_BROWSER
           /\ c.user_id # res.args.user_id
           /\ <<c.volume_id>> = res.args.server_id
    /\ \E c \in docker.containers :
           /\ c.type = GAME
           /\ c.user_id = res.args.user_id
           /\ <<c.volume_id>> = res.args.server_id

\* C17: startServer, stopServer, getServerLogs and startFileBrowser called with
\* a server id that has no volume fail with ServerNotFound and change nothing.
\* (None of the four adds or removes a volume, so the id has no volume after
\* the call exactly when it had none before.)
C17_NoRawEngineError ==
    (/\ res.op \in {"start_game_server", "stop_game_server",
                    "get_server_logs", "start_file_browser"}
     /\ ~docker_volumes_has(docker, res.args.server_id))
    => (res.err = "ServerNotFound" /\ ~res.changed)

\* C18: every owner has at most 3 running sidecars.
C18_AtMostThreeSidecars ==
    \A owner_id \in Users :
        Cardinality({c \in docker.containers :
                        /\ c.type = FILE_BROWSER
                        /\ c.status = "running"
                        /\ c.user_id = owner_id}) <= 3

\* C19: startFileBrowser on an existing server with no running game container
\* fails with ServerNotRunning and creates no sidecar.  (The call removes
\* nothing and adds no game container, so the server has no game container
\* after the call exactly when it had none before.)
C19_FileBrowserNeedsRunning ==
    (/\ res.op = "start_file_browser"
     /\ docker_volumes_has(docker, res.args.server_id)
     /\ GameContainers(docker, res.args.server_id) = {})
    => (res.err = "ServerNotRunning" /\ ~res.changed)

\* C16: run_command's read loop never raises; what it has collected at any
\* moment, and what it returns, is the lines it read from the stream in the
\* order read, at most LINES of them; retries and lines stay within the
\* bounds that end the loop after at most LINES + RETRIES + 2 polls.
C16_ReadLoopReturnsPartialOutput ==
    /\ cmd.pc \in {"idle", "loop", "returned"}
    /\ cmd.all_output = [i \in 1..cmd.read |-> i]
    /\ Len(cmd.all_output) <= LINES
    /\ Len(cmd.all_output) = LINES - cmd.lines
    /\ cmd.lines \in 0..LINES
    /\ cmd.retries \in (0 - 1)..RETRIES
    /\ cmd.pc = "returned" => (cmd.lines = 0 \/ cmd.retries = 0 - 1)

\* C16 happens: the call returned three lines after the stream fell silent.
C16_Witness ==
    /\ cmd.pc = "returned"
    /\ cmd.all_output = <<1, 2, 3>>
    /\ cmd.retries = 0 - 1

\* C20: a start call that passed the already-running check creates and starts
\* its container and returns normally whatever the other caller did since the
\* check: nothing is read again and no lock is taken.
C20_CheckedStartCreates ==
    [][\A p \in Callers :
          (starts[p].pc = "checked" /\ starts'[p].pc = "done")
          => /\ starts'[p].err = "ok"
             /\ \E c \in docker'.containers :
                   /\ c \notin docker.containers
                   /\ docker'.containers = docker.containers \cup {c}
                   /\ c.type = GAME
                   /\ c.status = "running"
                   /\ c.volume_id = starts[p].server_id]_vars

\* C20 happens: both callers started the same server and returned normally,
\* and the engine holds two running game containers labelled with its volume.
C20_Witness ==
    /\ \A p \in Callers :
          starts[p].pc = "done" /\ starts[p].err = "ok" /\ starts[p].server_id = 1
    /\ Cardinality(GameContainers(docker, 1)) = 2

\* C21: every (owner, server) pair has at most one running sidecar, also when
\* start_file_browser calls for the pair overlap.
C21_OneSidecarPerPair ==
    \A owner_id \in Users, server_id \in DOMAIN docker.volumes :
        Cardinality({c \in Sidecars(docker, server_id) : c.user_id = owner_id}) <= 1

C23_MoreThanOneMatchIsAnError ==
    /\ (/\ res.op \in {"get_server_info", "start_game_server", "stop_game_server",
                        "get_server_logs", "start_file_browser"}
        /\ ~res.changed
        /\ Cardinality(GameContainers(docker, res.args.server_id)) > 1)
       => res.err = "ValueError"
    /\ (/\ res.op = "run_command"
        /\ Cardinality(run_command_listed(docker, res.args.server_id)) > 1)
       => (res.err = "ValueError" /\ res.val = <<>>)

\* C24: when a server has a running game container and at least one sidecar,
\* run_command writes the command to the game container.
C24_CommandGoesToTheGameContainer ==
    (/\ res.op = "run_command"
     /\ GameContainers(docker, res.args.server_id) # {}
     /\ Sidecars(docker, res.args.server_id) # {})
    => (/\ res.err = "ok"
        /\ res.val.type = GAME
        /\ \E c \in GameContainers(docker, res.args.server_id) : res.val.written_to = c.id)

\* The sidecars the engine holds.
AllSidecars(d) == {c \in d.containers : c.type = FILE_BROWSER}

\* C25: start_game_server, stop_game_server, run_command, get_server_logs and
\* the exit of a game container leave the sidecars as they are, and a sidecar
\* leaves the engine only in a stop_file_browsing_by_user_and_server for its
\* owner (and its server, when one is given) or in a successful
\* delete_game_server of its server.
C25_SidecarsHaveNoExpiry ==
    [][/\ res'.op \in {"start_game_server", "stop_game_server", "run_command",
                       "get_server_logs", "container_exit"}
          => AllSidecars(docker') = AllSidecars(docker)
       /\ \A c \in AllSidecars(docker) \ AllSidecars(docker') :
             \/ /\ res'.op = "stop_file_browsing_by_user_and_server"
                /\ res'.args.user_id = c.user_id
                /\ res'.args.server_id \in {<<>>, <<c.volume_id>>}
             \/ /\ res'.op = "delete_game_server"
                /\ res'.err = "ok"
                /\ res'.args.server_id = c.volume_id]_vars

\* C25 happens: a stop of a server succeeded and the server's sidecar is still
\* there.
C25_Witness ==
    /\ res.op = "stop_game_server"
    /\ res.err = "ok"
    /\ res.removed = {[type |-> GAME, status |-> "running"]}
    /\ Sidecars(docker, res.args.server_id) # {}

\* C26: run_command polls the stream at most LINES + RETRIES times after it
\* wrote the command.
C26_AtMostLinesPlusRetriesPolls ==
    cmd.polls <= LINES + RETRIES

\* C27: run_command gives up (returns before it read LINES lines) at the poll
\* that follows RETRIES consecutive empty polls: the empty polls before the
\* last line read do not count.
C27_GivesUpOnSustainedSilenceOnly ==
    (cmd.pc = "returned" /\ cmd.lines > 0) => cmd.silent = RETRIES + 1

\* C28: a failing AddPortMapping request never leaves the publication as an
\* exception, and when the publication that follows a start returns, the
\* result of the start is what the handler returns: the Server with
\* running=true and the ports the container has, which runs, whichever
\* requests failed.
C28_GatewayFailuresNotEscalated ==
    [][/\ upnp'.pc # "raised"
       /\ (upnp.pc = "done" /\ upnp'.pc = "idle")
          => (/\ res'.op = "start_game_server"
              /\ res'.err = "ok"
              /\ res'.val.on
              /\ res'.val.ports = upnp.ports
              /\ docker' = docker
              /\ \E c \in GameContainers(docker', res'.args.server_id) :
                     <<c.ports>> = res'.val.ports)]_vars

\* C28 happens: the publication after a start is over, every request to every
\* gateway failed, and the started server runs.
C28_Witness ==
    /\ upnp.pc = "done"
    /\ upnp.ports # <<>>
    /\ upnp.failed = Devices \X upnp.ports[1]
    /\ res.op = "start_game_server"
    /\ res.err = "ok"
    /\ res.val.on
    /\ GameContainers(docker, res.args.server_id) # {}

\* C29: no step takes a forwarding rule away from a gateway.
C29_RulesOnlyAccumulate ==
    [][upnp.rules \subseteq upnp'.rules]_vars

\* C29 happens: a server was deleted, and the rule that its start registered
\* for its port on the first gateway is still registered.
C29_Witness ==
    /\ res.op = "delete_game_server"
    /\ res.err = "ok"
    /\ lifecycle[res.args.server_id] = "Deleted"
    /\ <<1, [number |-> 32768, protocol |-> "udp"]>> \in upnp.rules

\* C30: a call of a method of the wrapper ends as the runner's method does on
\* the same engine (same error or same value) and leaves the engine the
\* runner's method leaves.
C30_WrapperRefinesRunner ==
    [][/\ res'.op = "UPNPWrapper.get_image_info"
          => (/\ [err |-> res'.err, val |-> res'.val] = get_image_info(res'.args.image_id)
              /\ docker' = docker)
       /\ res'.op = "UPNPWrapper.get_server_info"
          => (/\ [err |-> res'.err, val |-> res'.val]
                    = get_server_info(docker, res'.args.server_id, <<>>)
              /\ docker' = docker)
       /\ res'.op = "UPNPWrapper.list_servers"
          => (/\ [err |-> res'.err, val |-> res'.val]
                    = list_servers(docker, res'.args.user_id, res'.args.image_id)
              /\ docker' = docker)
       /\ res'.op = "UPNPWrapper.stop_game_server"
          => [err |-> res'.err, val |-> res'.val, docker |-> docker']
                = stop_game_server(docker, res'.args.server_id)
       /\ res'.op = "UPNPWrapper.start_file_browser"
          => [err |-> res'.err, val |-> res'.val, docker |-> docker']
                = start_file_browser(docker, res'.args.server_id, res'.args.owner_id,
                                     res'.args.hashed_password, res'.args.container_id, "ok")
       /\ res'.op = "UPNPWrapper.stop_file_browsing"
          => [err |-> res'.err, val |-> res'.val, docker |-> docker']
                = stop_file_browsing_by_user_and_server(docker, res'.args.user_id,
                                                        res'.args.server_id)]_vars

\* C31: the running flag that get_server_info returns, and the flag of every
\* Server that list_servers returns, says whether the engine holds a running
\* game container labelled with the volume at the call; right after a game
\* container exited and was removed, get_server_info of its server returns
\* running=false and start_game_server of its server succeeds.
C31_NoCachedLiveness ==
    [][/\ (res'.op = "get_server_info" /\ res'.err = "ok")
          => res'.val.on = (GameContainers(docker, res'.args.server_id) # {})
       /\ LET listed == list_servers(docker, <<>>, <<>>)
          IN  /\ listed.err = "ok"
              /\ \A info \in listed.val :
                     info.on = (GameContainers(docker, info.id_) # {})
       /\ (/\ res.op = "container_exit"
           /\ res'.op = "get_server_info"
           /\ res'.args.server_id = res.args.server_id)
          => (res'.err = "ok" /\ ~res'.val.on)
       /\ (/\ res.op = "container_exit"
           /\ res'.op = "start_game_server"
           /\ res'.args.server_id = res.args.server_id)
          => (/\ res'.err = "ok"
              /\ res'.val.on
              /\ Cardinality(GameContainers(docker', res.args.server_id)) = 1)]_vars

\* C31 happens: the game container of a server that has a sidecar has just
\* exited, and get_server_info of the server now returns running=false.
C31_Witness ==
    /\ res.op = "container_exit"
    /\ GameContainers(docker, res.args.server_id) = {}
    /\ Sidecars(docker, res.args.server_id) # {}
    /\ get_server_info(docker, res.args.server_id, <<>>) =
           Ok(ServerInfo(res.args.server_id, docker.volumes[res.args.server_id].user_id,
                         get_image_info(docker.volumes[res.args.server_id].image_id).val,
                         FALSE, <<>>))

\* C32: when get_server_info reports a server with running=false, the engine
\* holds no container labelled GAME with the server's volume, in any state.
C32_NotRunningMeansNoGameContainer ==
    \A server_id \in DOMAIN docker.volumes :
        LET server_info == get_server_info(docker, server_id, <<>>)
        IN  (server_info.err = "ok" /\ ~server_info.val.on)
            => \A c \in docker.containers : ~(c.type = GAME /\ c.volume_id = server_id)

C34_DeletedStaysDeleted ==
    [][\A server_id \in VolIds :
           lifecycle[server_id] = "Deleted"
               => /\ ~docker_volumes_has(docker', server_id)
                  /\ \A c \in docker'.containers : c.volume_id # server_id]_vars

C36_TokenRedeemedOnce ==
    [][(/\ res.op = "create_user_from_token"
        /\ res.err = "ok"
        /\ res'.op = "create_user_from_token"
        /\ res'.args.token = res.args.token)
       => (res'.err # "ok" /\ db'.users = db.users)]_vars

\* C37: permission lists round-trip through the tables: after
\* set_server_permissions_for_user(server, user, P),
\* get_server_permissions_for_user(server, user) returns P, and after
\* change_permissions(username, P), get_user(username) returns a user whose
\* permissions are P.
C37_PermissionListsRoundTrip ==
    [][/\ (/\ res.op = "set_server_permissions_for_user"
           /\ res.err # "docker.errors.NotFound"
           /\ res'.op = "get_server_permissions_for_user"
           /\ res'.args.server_id = res.args.server_id
           /\ res'.args.user_id = res.args.user_id)
          => /\ res'.err = "ok"
             /\ res'.val # <<>>
             /\ res'.val[1].permissions = res.args.permissions
       /\ (/\ res.op = "change_permissions"
           /\ res'.op = "get_user"
           /\ res'.args.username = res.args.username)
          => /\ res'.err = "ok"
             /\ res'.val # <<>>
             /\ res'.val[1].permissions = res.args.permissions]_vars

\* C38: the permission check for the required set R lets the user through
\* only if R is within the user's global permissions, or the user is a global
\* admin, or a server id is given and the user owns that server, or a server id
\* is given and the user's grant on it holds every permission of R the user
\* lacks globally or holds admin; in every other case it raises 401 or 403.
C38_LetThroughOnlyIfPermitted ==
    res.op = "user_with_permissions" =>
        LET R == res.args.permissions
            username == res.args.username
            server_id == res.args.server_id
            global == UNION {(Range(u.scope) \cap Permission) : u \in {u \in db.users : u.username = username}}
            owner == /\ server_id # <<>>
                     /\ docker_volumes_has(docker, server_id[1])
                     /\ docker.volumes[server_id[1]].user_id = username
            grants == IF server_id = <<>> THEN {}
                      ELSE {(Range(r.scope) \cap Permission) : r \in {r \in db.server_permissions :
                                r.server_id = server_id[1] /\ r.user_id = username}}
            permitted == \/ R \subseteq global
                         \/ ADMIN \in global
                         \/ owner
                         \/ \E grant \in grants : (R \ global) \subseteq grant \/ ADMIN \in grant
        IN  /\ res.err = "ok" => permitted
            /\ ~permitted => res.err \in {"401", "403"}

\* C39: through POST /servers and DELETE /servers/{id}, a user without admin
\* owns at most max_owned_servers servers.
C39_OwnsAtMostMaxOwnedServers ==
    \A u \in db.users :
        ADMIN \notin (Range(u.scope) \cap Permission)
            => Cardinality({v \in DOMAIN docker.volumes :
                               /\ docker.volumes[v].exists
                               /\ docker.volumes[v].user_id = u.username})
                   <= u.max_owned_servers

====
